---- MODULE Spec2Model ----
(***************************************************************************)
(* FPLServer: the FDR calculate endpoint (POST /api/fdr/calculate), its    *)
(* staleness gate, the calculation recorder (team_fdr_calculations) and    *)
(* the rating projection onto the teams table.                             *)
(***************************************************************************)
EXTENDS Integers, Sequences, FiniteSets, TLC

\* ------------------------------------------------------------------ bounds
NumTeams == 2          \* rows of the teams table
MaxGW    == 2          \* highest gameweek id the store reaches
MaxTicks == 2          \* how many times the wall clock advances
MaxRuns  == 2          \* how many calculate invocations are started
MaxOps   == 1          \* how many other operations on the teams table are started
MaxFixtures == 2       \* length of the fixture list the FPL API answers with
NumPlayers == 11       \* player ids known to the FPL API
LastGW   == 4          \* the later of the two current gameweeks the syncs run at
MaxTriggers == 2       \* how many requests the trigger endpoint receives
MaxRows  == 2          \* qualifying player rows of a team given to the aggregator
MaxReads == 2          \* how many times the ratings are read
MaxGwSyncs == 2        \* how many times each writer of the gameweeks table is called
MaxRetries == 4        \* the largest `retries` fetchWithRetry is called with

\* --------------------------------------------------------------- constants
NULL       == -1                  \* JS null / SQL NULL
ONE_HOUR   == 60 * 60 * 1000      \* freshness window, ms
MS_PER_MIN == 60000               \* divisor of minutes_since_update
TEAM_LIMIT == 20                  \* .limit(20) of the teams lookup
NEUTRAL    == 5                   \* neutral rating of "|| 5" and of the backfill
SEASON_ID  == 1                   \* id of the seasons row marked is_current
FPL_NEUTRAL == 3                  \* default of "diffs.home || 3"
BATCH_SIZE == 10                  \* players fetched concurrently by a stats sync
QUICK_RATE_LIMIT_DELAY == 100     \* RATE_LIMIT_DELAY of the quick sync, ms
FULL_RATE_LIMIT_DELAY == 50       \* RATE_LIMIT_DELAY of the full sync, ms
TIMER_STEP == 500                 \* step of the clock while a timer is pending, ms

Procs   == {"cron", "bg"}         \* two callers of the endpoint
Teams   == 1..NumTeams
ClockSteps == {1, ONE_HOUR}       \* amounts by which the clock may advance
\* rating pairs the scorer may return for a team (null and 0 included)
ScorerRows == {[home_difficulty |-> 7, away_difficulty |-> 3],
               [home_difficulty |-> NULL, away_difficulty |-> 0]}

\* ----------------------------------------------------------------- helpers
\* toISOString that drops the milliseconds
toISOString_noMillis(t) == <<t \div 1000, 0>>

\* new Date(t).toISOString(): the instant as <<seconds, milliseconds>>
toISOString(t) == <<t \div 1000, t % 1000>>

\* a timestamp column that is NULL
NullTs == <<>>

\* new Date(iso).getTime()
getTime(iso) == iso[1] * 1000 + iso[2]

\* Math.round(x / d) for d > 0: nearest integer, halves towards +infinity
MathRound(x, d) == (2 * x + d) \div (2 * d)

\* JS "a || b" on a nullable number: null and 0 are falsy
OrDefault(v, d) == IF v = NULL \/ v = 0 THEN d ELSE v

\* what calculate_team_fdr() can return: a rating pair for a non-empty set
\* of teams (an empty result is handled apart, in CallScorer)
ScorerOutputs ==
  UNION {[S -> ScorerRows] : S \in (SUBSET Teams) \ {{}}}

VARIABLES
  now,          \* wall clock, ms
  ticks,        \* number of clock advances so far
  runs,         \* number of invocations started so far
  curGW,        \* id of the gameweeks row with is_current, or NULL
  calcs,        \* table team_fdr_calculations: a set of rows
  teams,        \* table teams: id -> [home_difficulty, away_difficulty, updated_at]
  pc,           \* per invocation: position in the handler
  loc,          \* per invocation: the handler's local variables
  resp,         \* per invocation: the response sent (status 0: none yet)
  log,          \* per invocation: store operations issued, in order
  start,        \* per invocation: the store as it was when it started
  last,         \* the most recently completed invocation
  fpl,          \* table teams: id -> [fpl_home_difficulty, fpl_away_difficulty]
  op,           \* the FPL-difficulty sync or season sync script in progress
  served,       \* the last response of the ratings read endpoint
  sync,         \* the quick or full stats sync: the handler's local variables
  task,         \* the stats sync: per player, how far its async function is
  stats,        \* table player_gameweek_stats: a set of rows
  api,          \* the FPL API and the store as the stats sync finds them
  env,          \* process.env: ADMIN_TOKEN and CRON_SECRET
  req,          \* the request a protected endpoint received last
  trigger,      \* the trigger endpoint: the handler's local variables
  sample,       \* the input a computation was given
  result,       \* what the computation made of it
  gameweeks,    \* table gameweeks: id -> [is_current, finished]
  roster,       \* table players: the ids of its rows
  gwsync,       \* the players sync and the live-gameweek sync: local variables
  retry         \* a call of fetchWithRetry: its local variables and its effects

vars == <<now, ticks, runs, curGW, calcs, teams, pc, loc, resp, log, start, last,
          fpl, op, served, sync, task, stats, api, env, req, trigger, sample,
          result, gameweeks, roster, gwsync, retry>>

\* the state of the stats syncs
syncVars == <<sync, task, stats, api>>

\* the requests and the environment, and the computations checked apart
reqVars == <<env, req, trigger>>

fnVars == <<sample, result>>

\* the gameweeks and players tables with their writers, and fetchWithRetry
lateVars == <<gameweeks, roster, gwsync, retry>>

more == <<reqVars, fnVars, lateVars>>

\* the state outside the calculate handler and its two tables
ext == <<fpl, op, served, syncVars, more>>

NoData == [ok |-> FALSE, data |-> {}]

NoLoc == [currentGW |-> NULL, lastCalc |-> {}, gateNow |-> 0,
          timeSinceLastCalc |-> 0, isStale |-> FALSE,
          fdrResults |-> <<>>, currentSeason |-> NULL, stored |-> FALSE,
          backfillOk |-> FALSE,
          allTeams |-> NoData, calculatedTeams |-> NoData, missingTeams |-> {},
          pending |-> {}, stamp |-> NullTs]

NoResp == [status |-> 0, success |-> FALSE, skipped |-> FALSE,
           minutes_since_update |-> NULL, teams_updated |-> NULL]

NoRun == [proc |-> "none", stale |-> FALSE, stored |-> FALSE, gw |-> NULL,
          gateNow |-> 0, startCalcs |-> {}, calcs |-> {}, status |-> 0]

NullTeam == [home_difficulty |-> NULL, away_difficulty |-> NULL,
             updated_at |-> NullTs]

\* the FPL difficulty columns of a team that no sync has set
NullFpl == [fpl_home_difficulty |-> NULL, fpl_away_difficulty |-> NULL]

\* no FPL-difficulty sync or season sync script in progress
NoOp == [kind |-> "none", n |-> 0, queue |-> <<>>, teamDifficulties |-> <<>>,
         updated |-> 0, errors |-> 0, status |-> 0]

\* the ratings read endpoint has not answered yet
NoServed == [status |-> 0, teams |-> <<>>, updated_at |-> NullTs,
             isStale |-> FALSE]

Players == 1..NumPlayers

\* no stats sync has started
NoSync == [tier |-> "none", pc |-> "idle", currentGW |-> NULL, fixtures |-> <<>>,
           playerIds |-> <<>>, i |-> 0, errors |-> 0, updatedPlayers |-> 0,
           status |-> 0, wake |-> 0, issuedAt |-> 0, joinedAt |-> 0]

\* the async function of a player has not been called
NoTask == [st |-> "queued", k |-> 0]

\* an FPL API that answers every element-summary request and a store that
\* accepts every row
NoFaults == [down |-> {}, rejected |-> {}]

\* a header or an environment variable: <<>> when it is not there (the JS
\* value undefined), <<text>> otherwise
Unset == <<>>

\* the deployment as documented: both secrets are set
Configured == [ADMIN_TOKEN |-> <<"admin">>, CRON_SECRET |-> <<"cron">>]

\* no request has arrived
NoReq == [endpoint |-> "none", method |-> "none", authorization |-> Unset,
          cronSecret |-> Unset]

\* the gameweeks table is kept row by row only where its writers are the
\* subject; elsewhere it is seen through curGW
NoGameweeks == <<>>

\* the handlers that write the gameweeks table
GwHandlers == {"players", "live"}

\* such a handler has not been called
NoGwSync == [pc |-> "idle", n |-> 0, apiCurrentGW |-> {}, dbCurrentGW |-> NULL,
             status |-> 0]

\* fetchWithRetry has not been called
NoRetry == [pc |-> "idle", retries |-> 0, i |-> 0, attempts |-> 0,
            failures |-> <<>>, waits |-> <<>>, outcome |-> "none",
            error |-> "none"]

\* the trigger endpoint has not been called
NoTrigger == [pc |-> "idle", n |-> 0, calls |-> <<>>, playersResult |-> "none",
              syncResult |-> "none", fplDiffResult |-> "none",
              fdrResult |-> "none", status |-> 0]

Init ==
  /\ now = 0
  /\ ticks = 0
  /\ runs = 0
  /\ curGW \in {NULL, 1}
  /\ calcs = {}
  /\ teams = [t \in Teams |-> NullTeam]
  /\ pc = [p \in Procs |-> "idle"]
  /\ loc = [p \in Procs |-> NoLoc]
  /\ resp = [p \in Procs |-> NoResp]
  /\ log = [p \in Procs |-> <<>>]
  /\ start = [p \in Procs |-> [calcs |-> {}, teams |-> [t \in Teams |-> NullTeam],
                               prev |-> NoRun]]
  /\ last = NoRun
  /\ fpl = [t \in Teams |-> NullFpl]
  /\ op = NoOp
  /\ served = NoServed
  /\ sync = NoSync
  /\ task = [p \in Players |-> NoTask]
  /\ stats = {}
  /\ api = NoFaults
  /\ env = Configured
  /\ req = NoReq
  /\ trigger = NoTrigger
  /\ gameweeks = NoGameweeks
  /\ roster = {}
  /\ gwsync = [h \in GwHandlers |-> NoGwSync]
  /\ retry = NoRetry
  /\ sample = <<>>
  /\ result = <<>>

\* ------------------------------------------------------------ store access
\* .order('calculation_timestamp', {ascending: false}).limit(1).single():
\* the possible results, {} standing for data = null
LatestRows(rows) ==
  IF rows = {} THEN {{}}
  ELSE {{r} : r \in {x \in rows : \A y \in rows :
                       getTime(y.calculation_timestamp) <= getTime(x.calculation_timestamp)}}

\* Upsert as a plain insert: nothing is replaced
Upsert_insert(rows, records) == rows \cup records

\* Upsert that replaces the whole table by the records
Upsert_replaceAll(rows, records) == records

\* .upsert(records, {onConflict: 'team_id'}): a record replaces the row of
\* the same team_id, whatever that row's gameweek
Upsert(rows, records) ==
  {r \in rows : \A n \in records : n.team_id # r.team_id} \cup records

\* .from('teams').select('id').order('id').limit(20)
SelectTeamIds == {t \in DOMAIN teams : Cardinality({u \in DOMAIN teams : u < t}) < TEAM_LIMIT}

\* ------------------------------------------------------------ the handler
\* IsStale with ">=" for ">" (a calculation exactly one hour old is stale)
IsStale_atWindow(lastCalc, currentGWid, timeSinceLastCalc) ==
  \/ lastCalc = {}
  \/ \E r \in lastCalc : r.gameweek_calculated # currentGWid
  \/ timeSinceLastCalc >= ONE_HOUR

\* the staleness predicate of the handler
IsStale(lastCalc, currentGWid, timeSinceLastCalc) ==
  \/ lastCalc = {}
  \/ \E r \in lastCalc : r.gameweek_calculated # currentGWid
  \/ timeSinceLastCalc > ONE_HOUR

\* Skip that never returns early
Skip_never(isStale) == FALSE

\* if (!isStale): the handler returns the "skipped" response
Skip(isStale) == ~isStale

\* leaving the handler with a response
Complete(p, r, isStale, gateNow) ==
  /\ pc' = [pc EXCEPT ![p] = "done"]
  /\ resp' = [resp EXCEPT ![p] = r]
  /\ last' = [proc |-> p, stale |-> isStale, stored |-> loc[p].stored,
              gw |-> loc[p].currentGW, gateNow |-> gateNow,
              startCalcs |-> start[p].calcs, calcs |-> calcs,
              status |-> r.status]

\* catch (error): 500
Failure == [NoResp EXCEPT !.status = 500]

\* the keys of the JSON body the calculate handler answers with (nested
\* keys with their path)
ResponseFields(r) ==
  IF r.status = 200 /\ r.skipped
    THEN {"success", "message", "skipped", "last_calculation",
          "minutes_since_update"}
  ELSE IF r.status = 200
    THEN {"success", "message", "stats.gameweek", "stats.teams_updated",
          "stats.duration_seconds", "sample_ratings"}
  ELSE IF r.status = 500 THEN {"success", "error", "message", "stack"}
  ELSE IF r.status \in {401, 405} THEN {"success", "error"}
  ELSE {}

Goto(p, l) == pc' = [pc EXCEPT ![p] = l] /\ UNCHANGED <<resp, last>>

Logged(p, e) == log' = [log EXCEPT ![p] = Append(@, e)]

\* an authorized POST arrives
Start(p) ==
  /\ pc[p] \in {"idle", "done"}
  /\ runs < MaxRuns
  /\ runs' = runs + 1
  /\ loc' = [loc EXCEPT ![p] = NoLoc]
  /\ log' = [log EXCEPT ![p] = <<>>]
  /\ resp' = [resp EXCEPT ![p] = NoResp]
  /\ start' = [start EXCEPT ![p] = [calcs |-> calcs, teams |-> teams, prev |-> last]]
  /\ pc' = [pc EXCEPT ![p] = "gw"]
  /\ UNCHANGED <<ext, now, ticks, curGW, calcs, teams, last>>

\* ReadGW that fails the run when no gameweek is marked current
ReadGW_required(p) ==
  /\ pc[p] = "gw"
  /\ loc' = [loc EXCEPT ![p].currentGW = curGW]
  /\ IF curGW = NULL THEN Complete(p, Failure, TRUE, now) ELSE Goto(p, "lastcalc")
  /\ UNCHANGED <<ext, now, ticks, runs, curGW, calcs, teams, log, start>>

\* Step 0, first query: the current gameweek
ReadGW(p) ==
  /\ pc[p] = "gw"
  /\ loc' = [loc EXCEPT ![p].currentGW = curGW]
  /\ Goto(p, "lastcalc")
  /\ UNCHANGED <<ext, now, ticks, runs, curGW, calcs, teams, log, start>>

\* CheckStaleness that stamps updated_at of the teams when it skips
CheckStaleness_touch(p) ==
  /\ pc[p] = "lastcalc"
  /\ \E lastCalc \in LatestRows(calcs) :
       LET lastCalcTime == IF lastCalc = {} THEN 0
                           ELSE getTime((CHOOSE r \in lastCalc : TRUE).calculation_timestamp)
           timeSinceLastCalc == now - lastCalcTime
           isStale == IsStale(lastCalc, loc[p].currentGW, timeSinceLastCalc)
       IN /\ loc' = [loc EXCEPT ![p].lastCalc = lastCalc,
                                ![p].gateNow = now,
                                ![p].timeSinceLastCalc = timeSinceLastCalc,
                                ![p].isStale = isStale]
          /\ teams' = IF isStale THEN teams
                      ELSE [t \in DOMAIN teams |->
                              [teams[t] EXCEPT !.updated_at = toISOString(now)]]
          /\ IF ~Skip(isStale)
               THEN Goto(p, "rpc")
               ELSE Complete(p, [NoResp EXCEPT !.status = 200, !.success = TRUE,
                                   !.skipped = TRUE,
                                   !.minutes_since_update =
                                      MathRound(timeSinceLastCalc, MS_PER_MIN)],
                             FALSE, now)
  /\ Logged(p, "gate")
  /\ UNCHANGED <<ext, now, ticks, runs, curGW, calcs, start>>

\* Step 0, second query and the decision
CheckStaleness(p) ==
  /\ pc[p] = "lastcalc"
  /\ \E lastCalc \in LatestRows(calcs) :
       LET lastCalcTime == IF lastCalc = {} THEN 0
                           ELSE getTime((CHOOSE r \in lastCalc : TRUE).calculation_timestamp)
           timeSinceLastCalc == now - lastCalcTime
           isStale == IsStale(lastCalc, loc[p].currentGW, timeSinceLastCalc)
       IN /\ loc' = [loc EXCEPT ![p].lastCalc = lastCalc,
                                ![p].gateNow = now,
                                ![p].timeSinceLastCalc = timeSinceLastCalc,
                                ![p].isStale = isStale]
          /\ IF ~Skip(isStale)
               THEN Goto(p, "rpc")
               ELSE Complete(p, [NoResp EXCEPT !.status = 200, !.success = TRUE,
                                   !.skipped = TRUE,
                                   !.minutes_since_update =
                                      MathRound(timeSinceLastCalc, MS_PER_MIN)],
                             FALSE, now)
  /\ Logged(p, "gate")
  /\ UNCHANGED <<ext, now, ticks, runs, curGW, calcs, teams, start>>

\* CallScorer that goes on with an empty result instead of throwing
CallScorer_emptyOk(p) ==
  /\ pc[p] = "rpc"
  /\ Logged(p, "rpc")
  /\ \/ /\ loc' = loc
        /\ Goto(p, "season")
     \/ \E f \in ScorerOutputs :
          /\ loc' = [loc EXCEPT ![p].fdrResults = f]
          /\ Goto(p, "season")
  /\ UNCHANGED <<ext, now, ticks, runs, curGW, calcs, teams, start>>

\* Step 1: supabase.rpc('calculate_team_fdr')
CallScorer(p) ==
  /\ pc[p] = "rpc"
  /\ Logged(p, "rpc")
  /\ \/ \* calcError, or no results: thrown, caught, 500
        /\ loc' = loc
        /\ Complete(p, Failure, TRUE, loc[p].gateNow)
     \/ \E f \in ScorerOutputs :
          /\ loc' = [loc EXCEPT ![p].fdrResults = f]
          /\ Goto(p, "season")
  /\ UNCHANGED <<ext, now, ticks, runs, curGW, calcs, teams, start>>

\* Step 2: the current season (an error is only warned about)
GetSeason(p) ==
  /\ pc[p] = "season"
  /\ \E s \in {NULL, SEASON_ID} :
       /\ loc' = [loc EXCEPT ![p].currentSeason = s]
       /\ Goto(p, IF loc[p].currentGW # NULL /\ s # NULL THEN "store" ELSE "update")
  /\ UNCHANGED <<ext, now, ticks, runs, curGW, calcs, teams, log, start>>

\* CalculationRecords stamped with the gameweek before the current one
CalculationRecords_prevGW(p) ==
  {[team_id |-> t,
    season_id |-> loc[p].currentSeason,
    gameweek_calculated |-> loc[p].currentGW - 1,
    home_difficulty |-> OrDefault(loc[p].fdrResults[t].home_difficulty, NEUTRAL),
    away_difficulty |-> OrDefault(loc[p].fdrResults[t].away_difficulty, NEUTRAL),
    calculation_timestamp |-> toISOString(now)] : t \in DOMAIN loc[p].fdrResults}

\* CalculationRecords whose ratings drift with the hour of the calculation
CalculationRecords_clock(p) ==
  {[team_id |-> t,
    season_id |-> loc[p].currentSeason,
    gameweek_calculated |-> loc[p].currentGW,
    home_difficulty |-> OrDefault(loc[p].fdrResults[t].home_difficulty, NEUTRAL)
                          + now \div ONE_HOUR,
    away_difficulty |-> OrDefault(loc[p].fdrResults[t].away_difficulty, NEUTRAL),
    calculation_timestamp |-> toISOString(now)] : t \in DOMAIN loc[p].fdrResults}

\* calculationRecords
CalculationRecords(p) ==
  {[team_id |-> t,
    season_id |-> loc[p].currentSeason,
    gameweek_calculated |-> loc[p].currentGW,
    home_difficulty |-> OrDefault(loc[p].fdrResults[t].home_difficulty, NEUTRAL),
    away_difficulty |-> OrDefault(loc[p].fdrResults[t].away_difficulty, NEUTRAL),
    calculation_timestamp |-> toISOString(now)] : t \in DOMAIN loc[p].fdrResults}

\* Step 3: upsert of the calculation records
StoreCalculations(p) ==
  /\ pc[p] = "store"
  /\ Logged(p, "upsert")
  /\ \E insertOk \in BOOLEAN :
       /\ calcs' = IF insertOk THEN Upsert(calcs, CalculationRecords(p)) ELSE calcs
       /\ loc' = [loc EXCEPT ![p].stored = insertOk]
  /\ Goto(p, "allteams")
  /\ UNCHANGED <<ext, now, ticks, runs, curGW, teams, start>>

\* Step 3.5, first lookup: the known teams
ReadAllTeams(p) ==
  /\ pc[p] = "allteams"
  /\ \E ok \in BOOLEAN :
       loc' = [loc EXCEPT ![p].allTeams =
                 IF ok THEN [ok |-> TRUE, data |-> SelectTeamIds] ELSE NoData]
  /\ Goto(p, "calculated")
  /\ UNCHANGED <<ext, now, ticks, runs, curGW, calcs, teams, log, start>>

\* AfterValidate that goes to Step 4 without the backfill upsert
AfterValidate_noBackfill(missingTeams) == "update"

\* if (missingTeams.length > 0): backfill, else straight to Step 4
AfterValidate(missingTeams) == IF missingTeams # {} THEN "backfill" ELSE "update"

\* Step 3.5, second lookup and the computation of missingTeams; a lookup
\* without data makes .filter / .find throw, which the catch turns into 500
ReadCalculatedTeams(p) ==
  /\ pc[p] = "calculated"
  /\ \E ok \in BOOLEAN :
       LET calculatedTeams == IF ok THEN [ok |-> TRUE, data |-> {r.team_id : r \in calcs}]
                              ELSE NoData
           allTeams == loc[p].allTeams
           throws == \/ ~allTeams.ok
                     \/ allTeams.data # {} /\ ~calculatedTeams.ok
           missingTeams == allTeams.data \ calculatedTeams.data
       IN IF throws
            THEN /\ loc' = [loc EXCEPT ![p].calculatedTeams = calculatedTeams]
                 /\ Complete(p, Failure, TRUE, loc[p].gateNow)
            ELSE /\ loc' = [loc EXCEPT ![p].calculatedTeams = calculatedTeams,
                                     ![p].missingTeams = missingTeams]
                 /\ Goto(p, AfterValidate(missingTeams))
  /\ UNCHANGED <<ext, now, ticks, runs, curGW, calcs, teams, log, start>>

\* backfillRecords
BackfillRecords(p) ==
  {[team_id |-> t,
    season_id |-> loc[p].currentSeason,
    gameweek_calculated |-> loc[p].currentGW,
    home_difficulty |-> NEUTRAL,
    away_difficulty |-> NEUTRAL,
    calculation_timestamp |-> toISOString(now)] : t \in loc[p].missingTeams}

\* Step 3.5: upsert of the backfill records
Backfill(p) ==
  /\ pc[p] = "backfill"
  /\ Logged(p, "backfill")
  /\ \E backfillOk \in BOOLEAN :
       /\ calcs' = IF backfillOk THEN Upsert(calcs, BackfillRecords(p)) ELSE calcs
       /\ loc' = [loc EXCEPT ![p].backfillOk = backfillOk]
  /\ Goto(p, "update")
  /\ UNCHANGED <<ext, now, ticks, runs, curGW, teams, start>>

\* Step 4: the update requests are built (one timestamp each, all taken now)
BuildUpdates(p) ==
  /\ pc[p] = "update"
  /\ loc' = [loc EXCEPT ![p].pending = DOMAIN loc[p].fdrResults,
                        ![p].stamp = toISOString(now)]
  /\ Goto(p, "updating")
  /\ UNCHANGED <<ext, now, ticks, runs, curGW, calcs, teams, log, start>>

\* Step 4: one of the updates of Promise.all reaches the store
UpdateTeam(p, t) ==
  /\ pc[p] = "updating"
  /\ t \in loc[p].pending
  /\ teams' = IF t \in DOMAIN teams
                THEN [teams EXCEPT ![t] =
                        [home_difficulty |-> loc[p].fdrResults[t].home_difficulty,
                         away_difficulty |-> loc[p].fdrResults[t].away_difficulty,
                         updated_at |-> loc[p].stamp]]
                ELSE teams
  /\ loc' = [loc EXCEPT ![p].pending = @ \ {t}]
  /\ Logged(p, "update")
  /\ Goto(p, "updating")
  /\ UNCHANGED <<ext, now, ticks, runs, curGW, calcs, start>>

\* all updates settled: the success response
Respond(p) ==
  /\ pc[p] = "updating"
  /\ loc[p].pending = {}
  /\ loc' = loc
  /\ Complete(p, [NoResp EXCEPT !.status = 200, !.success = TRUE,
                    !.teams_updated = Cardinality(DOMAIN loc[p].fdrResults)],
              TRUE, loc[p].gateNow)
  /\ UNCHANGED <<ext, now, ticks, runs, curGW, calcs, teams, log, start>>

\* ----------------------------------------------------------- environment
\* the positions whose next step reads the clock (Date.now(), new Date())
ClockReaders == {"lastcalc", "store", "backfill", "update"}

\* the wall clock advances; time that passes elsewhere is observed only at
\* the next read, so it is let pass right before a read
Tick ==
  /\ \/ \E p \in Procs : pc[p] \in ClockReaders
     \/ op.kind # "none" /\ op.status = 0
  /\ ticks < MaxTicks
  /\ ticks' = ticks + 1
  /\ \E d \in ClockSteps : now' = now + d
  /\ UNCHANGED <<ext, runs, curGW, calcs, teams, pc, loc, resp, log, start, last>>

\* the players sync advances the current gameweek (observed by the handler
\* only in its first query)
AdvanceGW ==
  /\ \E p \in Procs : pc[p] = "gw"
  /\ curGW # NULL
  /\ curGW < MaxGW
  /\ curGW' = curGW + 1
  /\ UNCHANGED <<ext, now, ticks, runs, calcs, teams, pc, loc, resp, log, start, last>>

\* no other invocation is in progress
Alone(p) == \A q \in Procs \ {p} : pc[q] \in {"idle", "done"}

Step(p) ==
  \/ ReadGW(p)
  \/ CheckStaleness(p)
  \/ CallScorer(p)
  \/ GetSeason(p)
  \/ StoreCalculations(p)
  \/ ReadAllTeams(p)
  \/ ReadCalculatedTeams(p)
  \/ Backfill(p)
  \/ BuildUpdates(p)
  \/ \E t \in Teams : UpdateTeam(p, t)
  \/ Respond(p)

\* the caller whose invocations follow one another (the hourly trigger)
SeqProcs == {"cron"}

\* an invocation starts when no other is in progress
SeqStart(p) == Alone(p) /\ Start(p)

\* invocations one after the other
Next ==
  \/ \E p \in SeqProcs : SeqStart(p)
  \/ \E p \in SeqProcs : Step(p)
  \/ Tick
  \/ AdvanceGW

Spec == Init /\ [][Next]_vars

\* ------------------------------------------- other users of the teams table
\* the elements of a set of numbers in ascending order (Object.entries of
\* an object with integer keys)
RECURSIVE Ascending(_)
Ascending(S) ==
  IF S = {} THEN <<>>
  ELSE LET m == CHOOSE x \in S : \A y \in S : x <= y
       IN <<m>> \o Ascending(S \ {m})

\* the fixtures the FPL API may answer with (a difficulty of 0: missing)
FplFixtures ==
  {f \in [team_h : Teams, team_a : Teams,
          team_h_difficulty : {0, 2}, team_a_difficulty : {0, 4}] :
     f.team_h # f.team_a}

FplFixtureLists == UNION {[1..n -> FplFixtures] : n \in 0..MaxFixtures}

\* teamDifficulties when a later fixture overwrites the value of an earlier one
RECURSIVE TeamDifficulties_lastWins(_, _, _)
TeamDifficulties_lastWins(fixtures, i, acc) ==
  IF i > Len(fixtures) THEN acc
  ELSE LET f == fixtures[i]
           a1 == [t \in DOMAIN acc \cup {f.team_h, f.team_a} |->
                    IF t \in DOMAIN acc THEN acc[t]
                    ELSE [home |-> NULL, away |-> NULL]]
           a2 == [a1 EXCEPT ![f.team_h].home = f.team_a_difficulty]
           a3 == [a2 EXCEPT ![f.team_a].away = f.team_h_difficulty]
       IN TeamDifficulties_lastWins(fixtures, i + 1,
                           IF f.team_h_difficulty = 0 \/ f.team_a_difficulty = 0
                             THEN acc ELSE a3)

\* teamDifficulties after the fixtures from position i on have been visited
RECURSIVE TeamDifficulties(_, _, _)
TeamDifficulties(fixtures, i, acc) ==
  IF i > Len(fixtures) THEN acc
  ELSE LET f == fixtures[i]
           a1 == [t \in DOMAIN acc \cup {f.team_h, f.team_a} |->
                    IF t \in DOMAIN acc THEN acc[t]
                    ELSE [home |-> NULL, away |-> NULL]]
           a2 == IF a1[f.team_h].home = NULL
                   THEN [a1 EXCEPT ![f.team_h].home = f.team_a_difficulty]
                   ELSE a1
           a3 == IF a2[f.team_a].away = NULL
                   THEN [a2 EXCEPT ![f.team_a].away = f.team_h_difficulty]
                   ELSE a2
       IN TeamDifficulties(fixtures, i + 1,
                           IF f.team_h_difficulty = 0 \/ f.team_a_difficulty = 0
                             THEN acc ELSE a3)

\* the columns the update of a team carries
FplPayload(diffs) ==
  [fpl_home_difficulty |-> OrDefault(diffs.home, FPL_NEUTRAL),
   fpl_away_difficulty |-> OrDefault(diffs.away, FPL_NEUTRAL)]

\* neither sync is in progress
OpIdle == op.kind = "none" \/ op.status # 0

\* nothing is in progress: no sync and no calculate invocation
Quiet == OpIdle /\ \A p \in Procs : pc[p] \in {"idle", "done"}

\* FPL-difficulty sync: an authorized POST arrives, the fixtures are fetched
\* and teamDifficulties is built
FplStart ==
  /\ Quiet
  /\ op.n < MaxOps
  /\ \/ \* the fixtures fetch fails: thrown, caught, 500
        op' = [NoOp EXCEPT !.kind = "fpl", !.n = op.n + 1, !.status = 500]
     \/ \E fixtures \in FplFixtureLists :
          LET teamDifficulties == TeamDifficulties(fixtures, 1, <<>>)
          IN op' = [NoOp EXCEPT !.kind = "fpl", !.n = op.n + 1,
                                !.teamDifficulties = teamDifficulties,
                                !.queue = Ascending(DOMAIN teamDifficulties)]
  /\ UNCHANGED <<now, ticks, runs, curGW, calcs, teams, pc, loc, resp, log,
                 start, last, fpl, served, syncVars, more>>

\* FPL-difficulty sync: the update of the next team
FplUpdateTeam ==
  /\ op.kind = "fpl" /\ op.status = 0 /\ op.queue # <<>>
  /\ LET teamId == Head(op.queue)
         diffs == op.teamDifficulties[teamId]
     IN \E ok \in BOOLEAN :
          /\ teams' = IF ok /\ teamId \in DOMAIN teams
                        THEN [teams EXCEPT ![teamId].updated_at = toISOString(now)]
                        ELSE teams
          /\ fpl' = IF ok /\ teamId \in DOMAIN teams
                      THEN [fpl EXCEPT ![teamId] = FplPayload(diffs)]
                      ELSE fpl
          /\ op' = [op EXCEPT !.queue = Tail(@),
                              !.updated = IF ok THEN @ + 1 ELSE @,
                              !.errors = IF ok THEN @ ELSE @ + 1]
  /\ UNCHANGED <<now, ticks, runs, curGW, calcs, pc, loc, resp, log, start,
                 last, served, syncVars, more>>

\* FPL-difficulty sync: the success response
FplRespond ==
  /\ op.kind = "fpl" /\ op.status = 0 /\ op.queue = <<>>
  /\ op' = [op EXCEPT !.status = 200]
  /\ UNCHANGED <<now, ticks, runs, curGW, calcs, teams, pc, loc, resp, log,
                 start, last, fpl, served, syncVars, more>>

\* the teams of bootstrap-static, in the order of the answer
BootstrapTeamLists == {<<>>} \cup {<<t>> : t \in Teams}
                        \cup {s \in Teams \X Teams : s[1] # s[2]}

\* season sync script: the current season is read and bootstrap-static is
\* fetched (either may fail: exit 1), then syncTeams starts
SeasonStart ==
  /\ Quiet
  /\ op.n < MaxOps
  /\ \/ op' = [NoOp EXCEPT !.kind = "season", !.n = op.n + 1, !.status = 1]
     \/ \E bootstrapTeams \in BootstrapTeamLists :
          op' = [NoOp EXCEPT !.kind = "season", !.n = op.n + 1,
                             !.queue = bootstrapTeams]
  /\ UNCHANGED <<now, ticks, runs, curGW, calcs, teams, pc, loc, resp, log,
                 start, last, fpl, served, syncVars, more>>

\* syncTeams: the upsert of the next team (id, code, name, short_name and
\* updated_at; the ratings are not among the columns)
SeasonUpsertTeam ==
  /\ op.kind = "season" /\ op.status = 0 /\ op.queue # <<>>
  /\ LET team == Head(op.queue)
     IN \E ok \in BOOLEAN :
          /\ teams' = IF ok THEN [teams EXCEPT ![team].updated_at = toISOString(now)]
                      ELSE teams
          /\ op' = [op EXCEPT !.queue = Tail(@),
                              !.updated = IF ok THEN @ + 1 ELSE @,
                              !.errors = IF ok THEN @ ELSE @ + 1]
  /\ UNCHANGED <<now, ticks, runs, curGW, calcs, pc, loc, resp, log, start,
                 last, fpl, served, syncVars, more>>

\* syncTeams returns; the rest of the script works on other tables
SeasonDone ==
  /\ op.kind = "season" /\ op.status = 0 /\ op.queue = <<>>
  /\ op' = [op EXCEPT !.status = 200]
  /\ UNCHANGED <<now, ticks, runs, curGW, calcs, teams, pc, loc, resp, log,
                 start, last, fpl, served, syncVars, more>>

\* .order('name') then teams[0]: team names are taken to sort as the ids do
FirstByName == IF DOMAIN teams = {} THEN {}
               ELSE {CHOOSE t \in DOMAIN teams : \A u \in DOMAIN teams : t <= u}

\* the ratings read endpoint (GET /api/fdr/ratings): the teams are read,
\* staleness is judged on the first team's updated_at, and when stale a
\* calculate request is sent without being awaited
GetRatings ==
  /\ op.n < MaxOps
  /\ op' = [op EXCEPT !.n = @ + 1]
  /\ \/ \* the query fails: thrown, caught, 500
        served' = [NoServed EXCEPT !.status = 500]
     \/ LET latestUpdate == IF FirstByName = {} THEN NullTs
                            ELSE teams[CHOOSE t \in FirstByName : TRUE].updated_at
            isStale == \/ latestUpdate = NullTs
                       \/ now - getTime(latestUpdate) > ONE_HOUR
        IN served' = [status |-> 200,
                      teams |-> [t \in DOMAIN teams |->
                                   [h_diff |-> OrDefault(teams[t].home_difficulty, NEUTRAL),
                                    a_diff |-> OrDefault(teams[t].away_difficulty, NEUTRAL)]],
                      updated_at |-> latestUpdate,
                      isStale |-> isStale]
  /\ UNCHANGED <<now, ticks, runs, curGW, calcs, teams, pc, loc, resp, log,
                 start, last, fpl, syncVars, more>>

\* the operations on the teams table, one after the other, with a single
\* calculate invocation among them
OneStart(p) == runs = 0 /\ OpIdle /\ SeqStart(p)

QuietGetRatings == Quiet /\ GetRatings

WritersNext ==
  \/ \E p \in SeqProcs : OneStart(p)
  \/ \E p \in SeqProcs : Step(p)
  \/ Tick
  \/ FplStart
  \/ FplUpdateTeam
  \/ FplRespond
  \/ SeasonStart
  \/ SeasonUpsertTeam
  \/ SeasonDone
  \/ QuietGetRatings

SpecWriters == Init /\ [][WritersNext]_vars

\* ------------------------------------------------ overlapping invocations
\* the invocation has evaluated its staleness gate
Decided(p) == Len(log[p]) > 0

\* the invocation has issued the store operation e
Issued(p, e) == \E i \in 1..Len(log[p]) : log[p][i] = e

\* the caller whose invocation is started by the ratings read endpoint
BgProcs == {"bg"}

\* the calculate request sent by the ratings read endpoint arrives
BackgroundStart(p) ==
  /\ served.status = 200 /\ served.isStale
  /\ pc[p] = "idle"
  /\ Start(p)

\* every store operation the invocation has issued so far succeeded: the
\* season was found, the upserts and the lookups answered without error
Healthy(p) ==
  /\ resp[p].status # 500
  /\ pc[p] \in {"store", "allteams", "calculated", "backfill", "update",
                "updating"} => loc[p].currentSeason # NULL
  /\ Issued(p, "upsert") => loc[p].stored
  /\ pc[p] = "calculated" => loc[p].allTeams.ok
  /\ Issued(p, "backfill") => loc[p].backfillOk

\* a step of an invocation against a store that answers without error
HealthyStep(p) == Step(p) /\ Healthy(p)'

\* the hourly trigger calls the endpoint, whatever else is in progress
TriggerStart(p) == pc[p] = "idle" /\ Start(p)

\* one invocation of the hourly trigger and one started by the ratings read
\* endpoint, which may overlap, within one current gameweek
ConcNext ==
  \/ \E p \in SeqProcs : TriggerStart(p)
  \/ GetRatings
  \/ \E p \in BgProcs : BackgroundStart(p)
  \/ \E p \in Procs : HealthyStep(p)
  \/ Tick

SpecConc == Init /\ [][ConcNext]_vars

\* ------------------------------------------------------- the stats syncs
\* the two tiers: /api/sync/quick-stats and /api/sync/full-stats
Tiers == {"quick", "full"}

RATE_LIMIT_DELAY(tier) ==
  IF tier = "quick" THEN QUICK_RATE_LIMIT_DELAY ELSE FULL_RATE_LIMIT_DELAY

\* the current gameweek a stats sync may find (NULL: none is marked current)
SyncGWs == {NULL, 1, LastGW}

\* the elements of a sequence
Range(seq) == {seq[j] : j \in 1..Len(seq)}

\* the concatenation of a sequence of sequences
RECURSIVE Concat(_)
Concat(seqs) == IF seqs = <<>> THEN <<>> ELSE Head(seqs) \o Concat(Tail(seqs))

\* summary.history as the FPL API answers it for player p: the rounds of
\* the entries, in order (the other fields are copied into the row as they are)
History(p) ==
  IF p = 1 THEN <<LastGW - 3, LastGW - 1, LastGW, LastGW + 1>>
  ELSE IF p \in {2, NumPlayers} THEN <<LastGW>>
  ELSE <<>>

\* the players whose element-summary request fails, and the rows
\* <<player, round>> whose upsert the store answers with an error
DownChoices == {{}, {3}, {1, NumPlayers}}

RejectChoices == {{}, {<<1, LastGW - 1>>}, {<<1, LastGW - 3>>, <<2, LastGW>>}}

Worlds == [down : DownChoices, rejected : RejectChoices]

\* the stats lists a fixture may carry (h, a: the elements of the entries)
StatsChoices ==
  {<<>>,
   <<[h |-> <<1, 2>>, a |-> <<2>>]>>,
   <<[h |-> <<3>>, a |-> <<>>], [h |-> <<1>>, a |-> <<3>>]>>,
   <<[h |-> [j \in 1..(NumPlayers \div 2) |-> j],
      a |-> [j \in 1..(NumPlayers - NumPlayers \div 2) |-> NumPlayers \div 2 + j]]>>}

\* the fixtures of the FPL API (event 0: no gameweek assigned)
Fixtures ==
  [finished : BOOLEAN, event : {0} \cup ((LastGW - 3)..(LastGW + 1)),
   stats : StatsChoices]

FixtureLists == UNION {[1..n -> Fixtures] : n \in 0..MaxFixtures}

\* bootstrap.elements: the ids of the players, in the order of the answer
BootstrapPlayerLists == {<<>>, <<2, 1>>, [j \in 1..NumPlayers |-> j]}

\* the state before a stats sync is called
SyncInit ==
  /\ now = 0
  /\ ticks = 0
  /\ runs = 0
  /\ curGW \in SyncGWs
  /\ calcs = {}
  /\ teams = [t \in Teams |-> NullTeam]
  /\ pc = [p \in Procs |-> "idle"]
  /\ loc = [p \in Procs |-> NoLoc]
  /\ resp = [p \in Procs |-> NoResp]
  /\ log = [p \in Procs |-> <<>>]
  /\ start = [p \in Procs |-> [calcs |-> {}, teams |-> [t \in Teams |-> NullTeam],
                               prev |-> NoRun]]
  /\ last = NoRun
  /\ fpl = [t \in Teams |-> NullFpl]
  /\ op = NoOp
  /\ served = NoServed
  /\ sync = NoSync
  /\ task = [p \in Players |-> NoTask]
  /\ stats = {}
  /\ api \in Worlds
  /\ env = Configured
  /\ req = NoReq
  /\ trigger = NoTrigger
  /\ gameweeks = NoGameweeks
  /\ roster = {}
  /\ gwsync = [h \in GwHandlers |-> NoGwSync]
  /\ retry = NoRetry
  /\ sample = <<>>
  /\ result = <<>>

\* what a stats sync leaves alone
calcVars == <<ticks, runs, curGW, calcs, teams, pc, loc, resp, log, start, last,
              fpl, op, served, more>>

\* an authorized POST arrives and the current gameweek is read; without
\* one the handler throws, which its catch turns into 500
SyncStart(tier) ==
  /\ sync.pc = "idle"
  /\ \E ok \in BOOLEAN :
       LET currentGW == IF ok THEN curGW ELSE NULL
       IN sync' = IF currentGW = NULL
                    THEN [sync EXCEPT !.tier = tier, !.pc = "done", !.status = 500]
                    ELSE [sync EXCEPT !.tier = tier, !.pc = "source",
                                      !.currentGW = currentGW]
  /\ UNCHANGED <<now, calcVars, task, stats, api>>

\* recentGWs: the current gameweek and the two before it, the positive ones
RecentGWs(g) == {gw \in {g, g - 1, g - 2} : gw > 0}

\* RecentFixtures that keeps the unfinished fixtures too
RecentFixtures_unfinished(fixtures, recentGWs) ==
  SelectSeq(fixtures, LAMBDA f : f.event # 0 /\ f.event \in recentGWs)

\* recentFixtures
RecentFixtures(fixtures, recentGWs) ==
  SelectSeq(fixtures, LAMBDA f : f.finished /\ f.event # 0 /\ f.event \in recentGWs)

\* Array.from of a Set to which the elements were added in this order
RECURSIVE InsertionOrder(_, _)
InsertionOrder(elems, acc) ==
  IF elems = <<>> THEN acc
  ELSE InsertionOrder(Tail(elems),
                      IF Head(elems) \in Range(acc) THEN acc
                      ELSE Append(acc, Head(elems)))

\* the elements of the stats lists of the fixtures, as forEach visits them
StatElements(fixtures) ==
  Concat([j \in 1..Len(fixtures) |->
            Concat([e \in 1..Len(fixtures[j].stats) |->
                      fixtures[j].stats[e].h \o fixtures[j].stats[e].a])])

\* playerIds of the quick sync
RecentPlayerIds(fixtures, recentGWs) ==
  InsertionOrder(StatElements(RecentFixtures(fixtures, recentGWs)), <<>>)

\* quick sync: the fixtures are fetched and the recent players extracted
FetchFixtures ==
  /\ sync.tier = "quick" /\ sync.pc = "source"
  /\ \/ sync' = [sync EXCEPT !.pc = "done", !.status = 500]
     \/ \E fixtures \in FixtureLists :
          sync' = [sync EXCEPT !.pc = "batch",
                               !.fixtures = fixtures,
                               !.playerIds =
                                  RecentPlayerIds(fixtures, RecentGWs(sync.currentGW))]
  /\ UNCHANGED <<now, calcVars, task, stats, api>>

\* full sync: bootstrap-static is fetched, every player is synced
FetchBootstrap ==
  /\ sync.tier = "full" /\ sync.pc = "source"
  /\ \/ sync' = [sync EXCEPT !.pc = "done", !.status = 500]
     \/ \E players \in BootstrapPlayerLists :
          sync' = [sync EXCEPT !.pc = "batch", !.playerIds = players]
  /\ UNCHANGED <<now, calcVars, task, stats, api>>

\* Batch of one player more than BATCH_SIZE
Batch_oneMore(playerIds, i) ==
  SubSeq(playerIds, i + 1,
         IF i + BATCH_SIZE + 1 < Len(playerIds) THEN i + BATCH_SIZE + 1
         ELSE Len(playerIds))

\* playerIds.slice(i, i + BATCH_SIZE)
Batch(playerIds, i) ==
  SubSeq(playerIds, i + 1,
         IF i + BATCH_SIZE < Len(playerIds) THEN i + BATCH_SIZE ELSE Len(playerIds))

\* batch.map(async ...): the async function of every player of the batch
\* runs up to its fetch (fixtures is not read any more and is dropped here)
StartBatch ==
  /\ sync.pc = "batch" /\ sync.i < Len(sync.playerIds)
  /\ task' = [p \in Players |->
                IF p \in Range(Batch(sync.playerIds, sync.i))
                  THEN [st |-> "fetch", k |-> 0] ELSE task[p]]
  /\ sync' = [sync EXCEPT !.pc = "inflight", !.fixtures = <<>>, !.issuedAt = now]
  /\ UNCHANGED <<now, calcVars, stats, api>>

\* Relevant that lets every history entry through
Relevant_all(tier, g, history) == history

\* the history entries a tier upserts: quick the rounds of recentGWs, full
\* the rounds up to the current gameweek
Relevant(tier, g, history) ==
  SelectSeq(history, LAMBDA round : IF tier = "quick" THEN round \in RecentGWs(g)
                                    ELSE round <= g)

\* the element-summary request of player p settles: a failure is caught and
\* counted, otherwise the loop over the history reaches its first upsert
FetchSettles(p) ==
  /\ sync.pc = "inflight" /\ task[p].st = "fetch"
  /\ IF p \in api.down
       THEN /\ task' = [task EXCEPT ![p].st = "settled"]
            /\ sync' = [sync EXCEPT !.errors = @ + 1]
       ELSE /\ task' = [task EXCEPT ![p] =
                          IF Relevant(sync.tier, sync.currentGW, History(p)) = <<>>
                            THEN [st |-> "settled", k |-> 0]
                            ELSE [st |-> "rows", k |-> 1]]
            /\ sync' = sync
  /\ UNCHANGED <<now, calcVars, stats, api>>

\* UpsertStat that inserts without looking for a row of the same key
UpsertStat_insert(rows, row) == rows \cup {row}

\* .upsert(row, {onConflict: 'player_id,gameweek_id'})
UpsertStat(rows, row) ==
  {r \in rows : r.player_id # row.player_id \/ r.gameweek_id # row.gameweek_id}
    \cup {row}

\* AfterUpsert that abandons the player's remaining rows after an error
AfterUpsert_stopOnError(k, len, error) ==
  IF error \/ k = len THEN [st |-> "settled", k |-> k] ELSE [st |-> "rows", k |-> k + 1]

\* the loop goes on with the next entry whatever the upsert answered
AfterUpsert(k, len, error) ==
  IF k = len THEN [st |-> "settled", k |-> k] ELSE [st |-> "rows", k |-> k + 1]

\* an upsert of player p settles: an error is counted, and the loop goes on
UpsertSettles(p) ==
  /\ sync.pc = "inflight" /\ task[p].st = "rows"
  /\ LET rows == Relevant(sync.tier, sync.currentGW, History(p))
         round == rows[task[p].k]
         error == <<p, round>> \in api.rejected
     IN /\ stats' = IF error THEN stats
                    ELSE UpsertStat(stats, [player_id |-> p, gameweek_id |-> round])
        /\ sync' = IF error THEN [sync EXCEPT !.errors = @ + 1]
                   ELSE [sync EXCEPT !.updatedPlayers = @ + 1]
        /\ task' = [task EXCEPT ![p] = AfterUpsert(task[p].k, Len(rows), error)]
  /\ UNCHANGED <<now, calcVars, api>>

\* Promise.all resolves: every function of the batch has settled, and the
\* delay timer is set
Join ==
  /\ sync.pc = "inflight"
  /\ \A p \in Range(Batch(sync.playerIds, sync.i)) : task[p].st = "settled"
  /\ sync' = [sync EXCEPT !.pc = "delay",
                          !.wake = now + RATE_LIMIT_DELAY(sync.tier) * BATCH_SIZE,
                          !.joinedAt = now]
  /\ UNCHANGED <<now, calcVars, task, stats, api>>

\* time passes while the timer is pending
TimePasses ==
  /\ sync.pc = "delay" /\ now < sync.wake
  /\ now' = now + TIMER_STEP
  /\ UNCHANGED <<calcVars, syncVars>>

\* the timer fires: the loop goes to the next batch
DelayEnd ==
  /\ sync.pc = "delay" /\ now >= sync.wake
  /\ sync' = [sync EXCEPT !.pc = "batch", !.i = @ + BATCH_SIZE]
  /\ UNCHANGED <<now, calcVars, task, stats, api>>

\* no batch is left: the success response
SyncRespond ==
  /\ sync.pc = "batch" /\ sync.i >= Len(sync.playerIds)
  /\ sync' = [sync EXCEPT !.pc = "done", !.status = 200, !.fixtures = <<>>]
  /\ UNCHANGED <<now, calcVars, task, stats, api>>

\* the keys of the JSON body a stats sync answers with
SyncResponseFields(y) ==
  IF y.status = 200
    THEN {"success", "message", "stats.gameweek", "stats.players_synced",
          "stats.stats_updated", "stats.errors", "stats.duration_seconds"}
           \cup (IF y.tier = "quick" THEN {"stats.gameweeks_synced"} ELSE {})
  ELSE IF y.status = 500 THEN {"success", "error", "message"}
  ELSE {}

SyncNext ==
  \/ \E tier \in Tiers : SyncStart(tier)
  \/ FetchFixtures
  \/ FetchBootstrap
  \/ StartBatch
  \/ \E p \in Players : FetchSettles(p)
  \/ \E p \in Players : UpsertSettles(p)
  \/ Join
  \/ TimePasses
  \/ DelayEnd
  \/ SyncRespond

SpecSync == SyncInit /\ [][SyncNext]_vars

\* the fixture lists of at most one fixture
ShortFixtureLists == {fixtures \in FixtureLists : Len(fixtures) <= 1}

\* the fixtures fetch answering with such a list
FetchShortFixtures == FetchFixtures /\ sync'.fixtures \in ShortFixtureLists

\* the steps of a stats sync that has been called
SyncProgress ==
  \/ FetchShortFixtures
  \/ FetchBootstrap
  \/ StartBatch
  \/ \E p \in Players : FetchSettles(p)
  \/ \E p \in Players : UpsertSettles(p)
  \/ Join
  \/ TimePasses
  \/ DelayEnd
  \/ SyncRespond

SyncFairNext ==
  \/ \E tier \in Tiers : SyncStart(tier)
  \/ SyncProgress

\* a stats sync whose fetches and upserts settle and whose timers fire
SpecSyncFair == SyncInit /\ [][SyncFairNext]_vars /\ WF_vars(SyncProgress)

\* ------------------------------------ the writers of player_gameweek_stats
\* Four programs write the table: the quick and the full sync, the
\* live-gameweek sync and the single-gameweek script. Each reaches it only
\* through single upserts on (player_id, gameweek_id), issued from the async
\* function of a player; invocations are not serialized, so the upserts of
\* all of them arrive in any order.
StatWriters == Tiers \cup {"live", "script"}

\* total_points of a history entry as the FPL API reports it when asked (it
\* changes while the gameweek is played)
PointsChoices == {0, 6}

\* the row made of a history entry (the other columns are copied likewise)
StatRow(p, round, points) ==
  [player_id |-> p, gameweek_id |-> round, total_points |-> points]

\* live-gameweek sync: history[history.length - 1], when it is of the
\* current gameweek
LatestOfCurrent(g, history) ==
  IF history # <<>> /\ history[Len(history)] = g
    THEN <<history[Len(history)]>> ELSE <<>>

\* single-gameweek script: history.find(gw => gw.round === targetGW)
FindRound(targetGW, history) ==
  LET hits == SelectSeq(history, LAMBDA round : round = targetGW)
  IN IF hits = <<>> THEN <<>> ELSE <<Head(hits)>>

\* the gameweeks the script accepts on its command line, as far as the
\* histories go
ScriptTargets == 1..(LastGW + 1)

\* the rounds of player p a writer upserts
WriterRounds(w, targetGW, p) ==
  IF w \in Tiers THEN Relevant(w, curGW, History(p))
  ELSE IF w = "live" THEN LatestOfCurrent(curGW, History(p))
  ELSE FindRound(targetGW, History(p))

\* one upsert of an invocation of writer w reaches the store
WriterUpsert(w, targetGW) ==
  /\ \E p \in Players \ api.down, points \in PointsChoices :
       LET rounds == WriterRounds(w, targetGW, p)
       IN \E j \in 1..Len(rounds) :
            stats' = IF <<p, rounds[j]>> \in api.rejected THEN stats
                     ELSE UpsertStat(stats, StatRow(p, rounds[j], points))
  /\ UNCHANGED <<now, calcVars, sync, task, api>>

\* the handlers go on only with a current gameweek
QuickUpsert == curGW # NULL /\ WriterUpsert("quick", curGW)

FullUpsert == curGW # NULL /\ WriterUpsert("full", curGW)

LiveUpsert == curGW # NULL /\ WriterUpsert("live", curGW)

\* the script takes the gameweek from its command line
ScriptUpsert == \E targetGW \in ScriptTargets : WriterUpsert("script", targetGW)

StatsNext ==
  \/ QuickUpsert
  \/ FullUpsert
  \/ LiveUpsert
  \/ ScriptUpsert

SpecStats == SyncInit /\ [][StatsNext]_vars

\* ---------------------------------------------------- the trigger endpoint
\* the methods and the Authorization headers a request may carry
Methods == {"POST", "GET"}

\* `Bearer ${token}`: an unset variable is spelled "undefined"
Bearer(token) == <<"Bearer", IF token = Unset THEN "undefined" ELSE token[1]>>

AuthHeaders == {Unset, Bearer(<<"admin">>), Bearer(<<"wrong">>), Bearer(Unset)}

\* the environments: each secret is set or not
Envs == [ADMIN_TOKEN : {Unset, <<"admin">>}, CRON_SECRET : {Unset, <<"cron">>}]

\* the endpoints the trigger calls, in the order of the handler's text
TriggerSteps == <<"players", "quick-stats", "fpl-difficulty", "calculate">>

\* what a call of an endpoint can come to: a JSON answer with response.ok
\* ("ok", for calculate "calculated" or "skipped"), a JSON answer without
\* ("failed"), or fetch / response.json() rejecting ("throws")
Answers(endpoint) ==
  IF endpoint = "calculate" THEN {"calculated", "skipped", "failed", "throws"}
  ELSE {"ok", "failed", "throws"}

\* response.ok
ResponseOk(answer) == answer \in {"ok", "calculated", "skipped"}

\* the state before the trigger endpoint is called
TriggerInit ==
  /\ now = 0
  /\ ticks = 0
  /\ runs = 0
  /\ curGW = 1
  /\ calcs = {}
  /\ teams = [t \in Teams |-> NullTeam]
  /\ pc = [p \in Procs |-> "idle"]
  /\ loc = [p \in Procs |-> NoLoc]
  /\ resp = [p \in Procs |-> NoResp]
  /\ log = [p \in Procs |-> <<>>]
  /\ start = [p \in Procs |-> [calcs |-> {}, teams |-> [t \in Teams |-> NullTeam],
                               prev |-> NoRun]]
  /\ last = NoRun
  /\ fpl = [t \in Teams |-> NullFpl]
  /\ op = NoOp
  /\ served = NoServed
  /\ sync = NoSync
  /\ task = [p \in Players |-> NoTask]
  /\ stats = {}
  /\ api = NoFaults
  /\ env \in Envs
  /\ req = NoReq
  /\ trigger = NoTrigger
  /\ gameweeks = NoGameweeks
  /\ roster = {}
  /\ gwsync = [h \in GwHandlers |-> NoGwSync]
  /\ retry = NoRetry
  /\ sample = <<>>
  /\ result = <<>>

\* what the trigger leaves alone (it reaches the store only through the
\* endpoints it calls)
storeVars == <<now, ticks, runs, curGW, calcs, teams, pc, loc, resp, log, start,
               last, fpl, op, served, syncVars, fnVars, lateVars>>

\* a request arrives: the method and the admin token are checked
TriggerArrive ==
  /\ trigger.pc \in {"idle", "done"}
  /\ trigger.n < MaxTriggers
  /\ \E method \in Methods, authHeader \in AuthHeaders :
       LET expectedToken == Bearer(env.ADMIN_TOKEN)
       IN /\ req' = [endpoint |-> "trigger", method |-> method,
                     authorization |-> authHeader, cronSecret |-> Unset]
          /\ trigger' =
               IF method # "POST"
                 THEN [NoTrigger EXCEPT !.pc = "done", !.status = 405,
                                        !.n = trigger.n + 1]
               ELSE IF authHeader = Unset \/ authHeader # expectedToken
                 THEN [NoTrigger EXCEPT !.pc = "done", !.status = 401,
                                        !.n = trigger.n + 1]
               ELSE [NoTrigger EXCEPT !.pc = "call", !.n = trigger.n + 1]
  /\ UNCHANGED <<storeVars, env>>

\* the number of the step whose answer arrived last
StepsDone(t) ==
  IF t.fdrResult # "none" THEN 4
  ELSE IF t.fplDiffResult # "none" THEN 3
  ELSE IF t.syncResult # "none" THEN 2
  ELSE IF t.playersResult # "none" THEN 1
  ELSE 0

\* await fetch(...): the request of the next step is sent
TriggerFetch ==
  /\ trigger.pc = "call"
  /\ StepsDone(trigger) < Len(TriggerSteps)
  /\ trigger' = [trigger EXCEPT !.pc = "await",
                                !.calls = Append(@, TriggerSteps[StepsDone(trigger) + 1])]
  /\ UNCHANGED <<storeVars, env, req>>

\* NextAfter that goes on after a failed quick sync as after the others
NextAfter_warnOnly(step, answer) ==
  IF answer = "throws" THEN "failed" ELSE "call"

\* where the handler goes once the answer of a step is there: a rejection
\* is caught (500), a failed quick sync is thrown (500), any other failure
\* is warned about
NextAfter(step, answer) ==
  IF answer = "throws" THEN "failed"
  ELSE IF step = "quick-stats" /\ ~ResponseOk(answer) THEN "failed"
  ELSE "call"

\* the answer of the step arrives and is parsed
TriggerReceive ==
  /\ trigger.pc = "await"
  /\ LET step == TriggerSteps[StepsDone(trigger) + 1]
     IN \E answer \in Answers(step) :
          LET t1 == IF step = "players" THEN [trigger EXCEPT !.playersResult = answer]
                    ELSE IF step = "quick-stats" THEN [trigger EXCEPT !.syncResult = answer]
                    ELSE IF step = "fpl-difficulty"
                      THEN [trigger EXCEPT !.fplDiffResult = answer]
                    ELSE [trigger EXCEPT !.fdrResult = answer]
          IN trigger' = [t1 EXCEPT !.pc = NextAfter(step, answer)]
  /\ UNCHANGED <<storeVars, env, req>>

\* the combined result, or the answer of the catch
TriggerRespond ==
  /\ \/ trigger.pc = "call" /\ StepsDone(trigger) = Len(TriggerSteps)
        /\ trigger' = [trigger EXCEPT !.pc = "done", !.status = 200]
     \/ trigger.pc = "failed"
        /\ trigger' = [trigger EXCEPT !.pc = "done", !.status = 500]
  /\ UNCHANGED <<storeVars, env, req>>

\* the keys of the JSON body the trigger answers with; the four results are
\* the bodies of the endpoints it called, passed on as they came
TriggerResponseFields(t) ==
  IF t.status = 200
    THEN {"success", "triggered", "triggered_at", "players_result", "sync_result",
          "fpl_difficulty_result", "fdr_result"}
  ELSE IF t.status = 500 THEN {"success", "error", "message"}
  ELSE IF t.status \in {401, 405} THEN {"error"}
  ELSE {}

TriggerNext ==
  \/ TriggerArrive
  \/ TriggerFetch
  \/ TriggerReceive
  \/ TriggerRespond

SpecTrigger == TriggerInit /\ [][TriggerNext]_vars

\* ------------------------------------------------- the computations apart
\* nothing has run yet: every table is empty and every handler idle
Quiescent ==
  /\ now = 0
  /\ ticks = 0
  /\ runs = 0
  /\ curGW = 1
  /\ calcs = {}
  /\ teams = [t \in Teams |-> NullTeam]
  /\ pc = [p \in Procs |-> "idle"]
  /\ loc = [p \in Procs |-> NoLoc]
  /\ resp = [p \in Procs |-> NoResp]
  /\ log = [p \in Procs |-> <<>>]
  /\ start = [p \in Procs |-> [calcs |-> {}, teams |-> [t \in Teams |-> NullTeam],
                               prev |-> NoRun]]
  /\ last = NoRun
  /\ fpl = [t \in Teams |-> NullFpl]
  /\ op = NoOp
  /\ served = NoServed
  /\ sync = NoSync
  /\ task = [p \in Players |-> NoTask]
  /\ stats = {}
  /\ api = NoFaults
  /\ req = NoReq
  /\ trigger = NoTrigger
  /\ gameweeks = NoGameweeks
  /\ roster = {}
  /\ gwsync = [h \in GwHandlers |-> NoGwSync]
  /\ retry = NoRetry

\* what a computation leaves alone
worldVars == <<now, ticks, runs, curGW, calcs, teams, pc, loc, resp, log, start,
               last, fpl, op, served, syncVars, reqVars, lateVars>>

\* the normalized factor scores the scorer may return: the 0-100 scale with
\* its two ends, and null
NormalizedScores == {NULL, 0, 1, 50, 100}

\* the rows calculate_team_fdr() may return for a team
TeamResults ==
  [team_id : Teams,
   games_played : {NULL, 0, 3},
   home_goals_scored_per_90 : {0, 2},
   home_goals_scored_per_90_score : NormalizedScores,
   away_goals_scored_per_90 : {0},
   away_goals_scored_per_90_score : NormalizedScores,
   home_difficulty : {NULL, 0, 7},
   away_difficulty : {3}]

\* an element of calculationRecords: fdrResults.map(team => ({...}))
calculationRecord(team, seasonId, gameweekId, stamp) ==
  [team_id |-> team.team_id,
   season_id |-> seasonId,
   gameweek_calculated |-> gameweekId,
   games_played |-> OrDefault(team.games_played, 0),
   home_goals_scored_per_90 |-> OrDefault(team.home_goals_scored_per_90, 0),
   home_goals_scored_per_90_score |->
     OrDefault(team.home_goals_scored_per_90_score, NEUTRAL),
   away_goals_scored_per_90 |-> OrDefault(team.away_goals_scored_per_90, 0),
   away_goals_scored_per_90_score |->
     OrDefault(team.away_goals_scored_per_90_score, NEUTRAL),
   home_difficulty |-> OrDefault(team.home_difficulty, NEUTRAL),
   away_difficulty |-> OrDefault(team.away_difficulty, NEUTRAL),
   calculation_timestamp |-> stamp]

\* the scorer has returned a row for a team
RecordsInit ==
  /\ Quiescent
  /\ env = Configured
  /\ sample \in TeamResults
  /\ result = <<>>

\* Step 3 makes the calculation record of the row
MakeRecord ==
  /\ result = <<>>
  /\ result' = <<calculationRecord(sample, SEASON_ID, curGW, toISOString(now))>>
  /\ UNCHANGED <<worldVars, sample>>

SpecRecords == RecordsInit /\ [][MakeRecord]_vars

\* ------------------------------------------------ runs over the same input
\* The stat store and the weight profile do not change: the scorer, a
\* function of the two, answers every call with the same rows (sample), or
\* fails.
SameInputInit ==
  /\ Quiescent
  /\ env = Configured
  /\ sample \in ScorerOutputs
  /\ result = <<>>

SameInputStart(p) == SeqStart(p) /\ UNCHANGED sample

SameInputStep(p) ==
  /\ Step(p)
  /\ loc'[p].fdrResults \in {<<>>, sample}

SameInputNext ==
  \/ \E p \in SeqProcs : SameInputStart(p)
  \/ \E p \in SeqProcs : SameInputStep(p)
  \/ Tick

SpecSameInput == SameInputInit /\ [][SameInputNext]_vars

\* ------------------------------------------------- readers of the ratings
\* GET /api/fdr/ratings as its readers call it, again and again: the teams
\* are read in the order of their names, staleness is judged on the first
\* team's updated_at, and a stale answer sends the calculate request that
\* BackgroundStart receives (the token being configured)
ReadRatings ==
  /\ op.n < MaxReads
  /\ op' = [op EXCEPT !.n = @ + 1]
  /\ \/ \* the query fails: thrown, caught, 500
        served' = [NoServed EXCEPT !.status = 500]
     \/ LET latestUpdate == IF FirstByName = {} THEN NullTs
                            ELSE teams[CHOOSE t \in FirstByName : TRUE].updated_at
            isStale == \/ latestUpdate = NullTs
                       \/ now - getTime(latestUpdate) > ONE_HOUR
        IN served' = [status |-> 200,
                      teams |-> [t \in DOMAIN teams |->
                                   [h_diff |-> OrDefault(teams[t].home_difficulty, NEUTRAL),
                                    a_diff |-> OrDefault(teams[t].away_difficulty, NEUTRAL)]],
                      updated_at |-> latestUpdate,
                      isStale |-> isStale]
  /\ UNCHANGED <<now, ticks, runs, curGW, calcs, teams, pc, loc, resp, log,
                 start, last, fpl, syncVars, more>>

\* reads of the ratings and the invocation they start, against a store that
\* answers without error
ReadersNext ==
  \/ ReadRatings
  \/ \E p \in BgProcs : BackgroundStart(p)
  \/ \E p \in BgProcs : HealthyStep(p)
  \/ Tick

SpecReaders == Init /\ [][ReadersNext]_vars

\* ------------------------------------------------- the protected endpoints
\* /api/fdr/calculate, the FPL-difficulty sync (/api/sync/players) and the
\* live-gameweek sync check the caller before they do anything else.
Endpoints == {"calculate", "fpl-difficulty", "live-gameweek"}

RequestMethods == Methods \cup {"OPTIONS"}

\* the x-vercel-cron-secret headers a request may carry
CronHeaders == {Unset, <<"cron">>, <<"wrong">>}

Requests == [endpoint : Endpoints, method : RequestMethods,
             authorization : AuthHeaders, cronSecret : CronHeaders]

\* isAuthorized of calculate and of the FPL-difficulty sync
IsAuthorized(r, e) ==
  \/ r.authorization = Bearer(e.ADMIN_TOKEN)
  \/ r.cronSecret = e.CRON_SECRET

\* the live-gameweek sync looks at the cron secret only
LiveAuthorized(r, e) == r.cronSecret = e.CRON_SECRET

\* the state before a request arrives, in any deployment
AuthInit ==
  /\ now = 0
  /\ ticks = 0
  /\ runs = 0
  /\ curGW \in SyncGWs
  /\ calcs = {}
  /\ teams = [t \in Teams |-> NullTeam]
  /\ pc = [p \in Procs |-> "idle"]
  /\ loc = [p \in Procs |-> NoLoc]
  /\ resp = [p \in Procs |-> NoResp]
  /\ log = [p \in Procs |-> <<>>]
  /\ start = [p \in Procs |-> [calcs |-> {}, teams |-> [t \in Teams |-> NullTeam],
                               prev |-> NoRun]]
  /\ last = NoRun
  /\ fpl = [t \in Teams |-> NullFpl]
  /\ op = NoOp
  /\ served = NoServed
  /\ sync = NoSync
  /\ task = [p \in Players |-> NoTask]
  /\ stats = {}
  /\ api = NoFaults
  /\ env \in Envs
  /\ req = NoReq
  /\ trigger = NoTrigger
  /\ gameweeks = NoGameweeks
  /\ roster = {}
  /\ gwsync = [h \in GwHandlers |-> NoGwSync]
  /\ retry = NoRetry
  /\ sample = <<>>
  /\ result = <<>>

\* a request reaches one of the endpoints
Arrive ==
  /\ req = NoReq
  /\ req' \in Requests
  /\ UNCHANGED <<storeVars, env, trigger>>

\* res.status(status) of calculate before its try block
Answer(p, status) ==
  /\ pc' = [pc EXCEPT ![p] = "done"]
  /\ resp' = [resp EXCEPT ![p] = [NoResp EXCEPT !.status = status]]
  /\ UNCHANGED <<ext, now, ticks, runs, curGW, calcs, teams, loc, log, start, last>>

\* calculate: OPTIONS, the security check and the method check, then the
\* handler proper
CalculateEntry(p) ==
  /\ req.endpoint = "calculate"
  /\ pc[p] = "idle"
  /\ IF req.method = "OPTIONS" THEN Answer(p, 200)
     ELSE IF ~IsAuthorized(req, env) THEN Answer(p, 401)
     ELSE IF req.method # "POST" THEN Answer(p, 405)
     ELSE Start(p)

\* FPL-difficulty sync: the same checks, then the sync proper
FplEntry ==
  /\ req.endpoint = "fpl-difficulty"
  /\ op.kind = "none"
  /\ LET answer(status) ==
           /\ op' = [NoOp EXCEPT !.kind = "fpl", !.n = op.n + 1, !.status = status]
           /\ UNCHANGED <<now, ticks, runs, curGW, calcs, teams, pc, loc, resp, log,
                          start, last, fpl, served, syncVars, more>>
     IN IF req.method = "OPTIONS" THEN answer(200)
        ELSE IF ~IsAuthorized(req, env) THEN answer(401)
        ELSE IF req.method # "POST" THEN answer(405)
        ELSE FplStart

\* live-gameweek sync: the cron secret is checked, then the current gameweek
\* is read; without one, or with a finished one, there is nothing to sync
LiveEntry ==
  /\ req.endpoint = "live-gameweek"
  /\ sync.pc = "idle"
  /\ IF ~LiveAuthorized(req, env)
       THEN sync' = [sync EXCEPT !.tier = "live", !.pc = "done", !.status = 401]
       ELSE \E ok \in BOOLEAN, finished \in BOOLEAN :
              sync' = IF ~ok
                        THEN [sync EXCEPT !.tier = "live", !.pc = "done", !.status = 500]
                      ELSE IF curGW = NULL \/ finished
                        THEN [sync EXCEPT !.tier = "live", !.pc = "done", !.status = 200]
                      ELSE [sync EXCEPT !.tier = "live", !.pc = "source",
                                        !.currentGW = curGW]
  /\ UNCHANGED <<now, calcVars, task, stats, api>>

\* live-gameweek sync: bootstrap-static is fetched and the gameweek's status
\* written (its columns are not among the modelled ones)
LiveBootstrap ==
  /\ sync.tier = "live" /\ sync.pc = "source"
  /\ \/ sync' = [sync EXCEPT !.pc = "done", !.status = 500]
     \/ sync' = [sync EXCEPT !.pc = "inflight"]
  /\ UNCHANGED <<now, calcVars, task, stats, api>>

\* live-gameweek sync: an upsert of one of its batches reaches the store
LiveWrite ==
  /\ sync.tier = "live" /\ sync.pc = "inflight"
  /\ LiveUpsert

\* live-gameweek sync: the success response
LiveRespond ==
  /\ sync.tier = "live" /\ sync.pc = "inflight"
  /\ sync' = [sync EXCEPT !.pc = "done", !.status = 200]
  /\ UNCHANGED <<now, calcVars, task, stats, api>>

\* one request to one of the protected endpoints
AuthNext ==
  \/ Arrive
  \/ \E p \in SeqProcs : CalculateEntry(p)
  \/ \E p \in SeqProcs : HealthyStep(p)
  \/ FplEntry
  \/ FplUpdateTeam
  \/ FplRespond
  \/ LiveEntry
  \/ LiveBootstrap
  \/ LiveWrite
  \/ LiveRespond

SpecAuth == AuthInit /\ [][AuthNext]_vars

\* ------------------------------------------- the writers of gameweeks
\* /api/sync/players and the live-gameweek sync are the handlers that write
\* is_current and finished of the gameweeks table.
GWIds == 1..MaxGW

\* the table with gameweek c current (NULL: none), the earlier ones finished
TableWith(c) ==
  [g \in GWIds |-> [is_current |-> g = c, finished |-> c # NULL /\ g < c]]

CurrentRows(table) == {g \in DOMAIN table : table[g].is_current}

\* .eq('is_current', true).single(): the id of the row when there is
\* exactly one, no data otherwise
Single(table) ==
  IF Cardinality(CurrentRows(table)) = 1
    THEN CHOOSE g \in CurrentRows(table) : TRUE ELSE NULL

\* bootstrap.events.find(e => e.is_current): the event, or nothing
ApiCurrentGWs == {{}} \cup {{[id |-> g, finished |-> f]} : g \in GWIds, f \in BOOLEAN}

\* bootstrap.events.find(e => e.id === id) of the same answer
EventOf(apiCurrentGW, id) ==
  IF \E e \in apiCurrentGW : e.id = id
    THEN [is_current |-> TRUE, finished |-> \E e \in apiCurrentGW : e.finished]
    ELSE [is_current |-> FALSE, finished |-> \E e \in apiCurrentGW : e.id > id]

\* the store before a sync: one gameweek current, or none
GameweeksInit ==
  /\ now = 0
  /\ ticks = 0
  /\ runs = 0
  /\ \E c \in GWIds \cup {NULL} : gameweeks = TableWith(c)
  /\ curGW = Single(gameweeks)
  /\ calcs = {}
  /\ teams = [t \in Teams |-> NullTeam]
  /\ pc = [p \in Procs |-> "idle"]
  /\ loc = [p \in Procs |-> NoLoc]
  /\ resp = [p \in Procs |-> NoResp]
  /\ log = [p \in Procs |-> <<>>]
  /\ start = [p \in Procs |-> [calcs |-> {}, teams |-> [t \in Teams |-> NullTeam],
                               prev |-> NoRun]]
  /\ last = NoRun
  /\ fpl = [t \in Teams |-> NullFpl]
  /\ op = NoOp
  /\ served = NoServed
  /\ sync = NoSync
  /\ task = [p \in Players |-> NoTask]
  /\ stats = {}
  /\ api = NoFaults
  /\ env = Configured
  /\ req = NoReq
  /\ trigger = NoTrigger
  /\ sample = <<>>
  /\ result = <<>>
  /\ roster = {}
  /\ gwsync = [h \in GwHandlers |-> NoGwSync]
  /\ retry = NoRetry

\* what the two handlers leave alone
otherVars == <<now, ticks, runs, calcs, teams, pc, loc, resp, log, start, last,
               fpl, op, served, syncVars, reqVars, fnVars, retry>>

\* the handler h goes to position l
GwGoto(h, l) == gwsync' = [gwsync EXCEPT ![h].pc = l]

\* the handler h answers
GwAnswer(h, status) == gwsync' = [gwsync EXCEPT ![h].pc = "done", ![h].status = status]

\* an update of the gameweeks row id; a reader sees the table as it is now
UpdateGameweek(id, columns) ==
  /\ gameweeks' = [g \in DOMAIN gameweeks |->
                     IF g = id
                       THEN [c \in DOMAIN gameweeks[g] |->
                               IF c \in DOMAIN columns THEN columns[c]
                               ELSE gameweeks[g][c]]
                       ELSE gameweeks[g]]
  /\ curGW' = Single(gameweeks')

\* players sync: an authorized POST arrives and bootstrap-static is fetched
PlayersStart ==
  /\ gwsync["players"].pc \in {"idle", "done"}
  /\ gwsync["players"].n < MaxGwSyncs
  /\ \/ gwsync' = [gwsync EXCEPT !["players"] =
                     [NoGwSync EXCEPT !.n = gwsync["players"].n + 1,
                                      !.pc = "done", !.status = 500]]
     \/ \E apiCurrentGW \in ApiCurrentGWs :
          gwsync' = [gwsync EXCEPT !["players"] =
                       [NoGwSync EXCEPT !.n = gwsync["players"].n + 1,
                                        !.pc = "upsert",
                                        !.apiCurrentGW = apiCurrentGW]]
  /\ UNCHANGED <<otherVars, gameweeks, curGW, roster>>

\* players sync: the single upsert of all players; its error is thrown
PlayersUpsert ==
  /\ gwsync["players"].pc = "upsert"
  /\ \/ /\ GwAnswer("players", 500)
        /\ roster' = roster
     \/ \E players \in BootstrapPlayerLists :
          /\ roster' = roster \cup Range(players)
          /\ GwGoto("players",
                    IF gwsync["players"].apiCurrentGW = {} THEN "respond" ELSE "read")
  /\ UNCHANGED <<otherVars, gameweeks, curGW>>

\* players sync: the current gameweek of the store is looked up
PlayersReadCurrent ==
  /\ gwsync["players"].pc = "read"
  /\ LET dbCurrentGW == Single(gameweeks)
         apiCurrentGW == CHOOSE e \in gwsync["players"].apiCurrentGW : TRUE
     IN gwsync' = [gwsync EXCEPT
                     !["players"].dbCurrentGW = dbCurrentGW,
                     !["players"].pc =
                        IF dbCurrentGW # NULL /\ dbCurrentGW # apiCurrentGW.id
                          THEN "unmark" ELSE "keep"]
  /\ UNCHANGED <<otherVars, gameweeks, curGW, roster>>

\* players sync, advancing: the first update takes is_current off the old row
PlayersUnmark ==
  /\ gwsync["players"].pc = "unmark"
  /\ UpdateGameweek(gwsync["players"].dbCurrentGW,
                    [is_current |-> FALSE, finished |-> TRUE])
  /\ GwGoto("players", "mark")
  /\ UNCHANGED <<otherVars, roster>>

\* players sync, advancing: the second update puts it on the new row
PlayersMark ==
  /\ gwsync["players"].pc = "mark"
  /\ LET apiCurrentGW == CHOOSE e \in gwsync["players"].apiCurrentGW : TRUE
     IN UpdateGameweek(apiCurrentGW.id,
                       [is_current |-> TRUE, finished |-> apiCurrentGW.finished])
  /\ GwGoto("players", "respond")
  /\ UNCHANGED <<otherVars, roster>>

\* players sync, else branch: only the finished flag is written
PlayersKeep ==
  /\ gwsync["players"].pc = "keep"
  /\ LET apiCurrentGW == CHOOSE e \in gwsync["players"].apiCurrentGW : TRUE
     IN UpdateGameweek(apiCurrentGW.id,
                       [finished |-> apiCurrentGW.finished])
  /\ GwGoto("players", "respond")
  /\ UNCHANGED <<otherVars, roster>>

\* players sync: the success response
PlayersRespond ==
  /\ gwsync["players"].pc = "respond"
  /\ GwAnswer("players", 200)
  /\ UNCHANGED <<otherVars, gameweeks, curGW, roster>>

\* live-gameweek sync: an authorized request arrives and the current
\* gameweek is read; none (an error of .single()) or a finished one ends it
LiveStatusRead ==
  /\ gwsync["live"].pc \in {"idle", "done"}
  /\ gwsync["live"].n < MaxGwSyncs
  /\ LET currentGW == Single(gameweeks)
         called == [NoGwSync EXCEPT !.n = gwsync["live"].n + 1]
     IN gwsync' = [gwsync EXCEPT !["live"] =
                     IF currentGW = NULL
                       THEN [called EXCEPT !.pc = "done", !.status = 500]
                     ELSE IF gameweeks[currentGW].finished
                       THEN [called EXCEPT !.pc = "done", !.status = 200]
                     ELSE [called EXCEPT !.pc = "fetch", !.dbCurrentGW = currentGW]]
  /\ UNCHANGED <<otherVars, gameweeks, curGW, roster>>

\* live-gameweek sync: bootstrap-static is fetched
LiveStatusFetch ==
  /\ gwsync["live"].pc = "fetch"
  /\ \/ GwAnswer("live", 500)
     \/ \E apiCurrentGW \in ApiCurrentGWs :
          gwsync' = [gwsync EXCEPT !["live"].apiCurrentGW = apiCurrentGW,
                                   !["live"].pc = "update"]
  /\ UNCHANGED <<otherVars, gameweeks, curGW, roster>>

\* live-gameweek sync: finished and is_current of the row are overwritten
\* with those of the event of the same id
LiveStatusUpdate ==
  /\ gwsync["live"].pc = "update"
  /\ LET currentEvent == EventOf(gwsync["live"].apiCurrentGW,
                                 gwsync["live"].dbCurrentGW)
     IN UpdateGameweek(gwsync["live"].dbCurrentGW,
                       [is_current |-> currentEvent.is_current,
                        finished |-> currentEvent.finished])
  /\ GwGoto("live", "respond")
  /\ UNCHANGED <<otherVars, roster>>

\* live-gameweek sync: after its batches of stat upserts (LiveWrite), the
\* success response
LiveStatusRespond ==
  /\ gwsync["live"].pc = "respond"
  /\ GwAnswer("live", 200)
  /\ UNCHANGED <<otherVars, gameweeks, curGW, roster>>

GameweeksNext ==
  \/ PlayersStart
  \/ PlayersUpsert
  \/ PlayersReadCurrent
  \/ PlayersUnmark
  \/ PlayersMark
  \/ PlayersKeep
  \/ PlayersRespond
  \/ LiveStatusRead
  \/ LiveStatusFetch
  \/ LiveStatusUpdate
  \/ LiveStatusRespond

SpecGameweeks == GameweeksInit /\ [][GameweeksNext]_vars

\* --------------------------------------------------------- the aggregator
\* calculate_team_fdr() runs in the database; its aggregation is taken
\* from its description: rate = sum(stat) / (sum(minutes) / 90) over the
\* qualifying rows of the team's players, 0 when no minutes were played.
\* Rates are kept in hundredths, rounded down.
MINUTES_PER_MATCH == 90

RATE_SCALE == 100

\* the qualifying player_gameweek_stats rows of a team
QualifyingRows == [gameweek_id : 1..2, minutes : {0, 45, 90}, goals_scored : {0, 1, 2}]

RowLists == UNION {[1..n -> QualifyingRows] : n \in 0..MaxRows}

RECURSIVE SumOf(_, _)
SumOf(rows, column) ==
  IF rows = <<>> THEN 0
  ELSE (IF column = "minutes" THEN Head(rows).minutes ELSE Head(rows).goals_scored)
         + SumOf(Tail(rows), column)

\* Per90 that averages over the players instead of the minutes
Per90_perPlayer(rows, column) ==
  IF rows = <<>> THEN 0 ELSE (SumOf(rows, column) * RATE_SCALE) \div Len(rows)

\* the per-90 rate of a column, in hundredths
Per90(rows, column) ==
  IF SumOf(rows, "minutes") = 0 THEN 0
  ELSE (SumOf(rows, column) * MINUTES_PER_MATCH * RATE_SCALE)
         \div SumOf(rows, "minutes")

\* the gameweeks in which the team's players were on the pitch
GamesPlayed(rows) ==
  Cardinality({rows[j].gameweek_id : j \in {i \in 1..Len(rows) : rows[i].minutes > 0}})

\* the rows of a team are in the stat store
AggregateInit ==
  /\ Quiescent
  /\ env = Configured
  /\ sample \in RowLists
  /\ result = <<>>

\* the aggregator reduces them
Aggregate ==
  /\ result = <<>>
  /\ result' = <<[goals_per_90 |-> Per90(sample, "goals_scored"),
                  games_played |-> GamesPlayed(sample)]>>
  /\ UNCHANGED <<worldVars, sample>>

SpecAggregate == AggregateInit /\ [][Aggregate]_vars

\* -------------------------------------------------------- fetchWithRetry
\* the step of the wait after a failed attempt, in milliseconds
BACKOFF_MS == 1000

\* how an attempt may fail: fetch rejects, the response is not ok, or
\* response.json() rejects; all three are thrown inside the try
Failures == {"rejected", "status", "json"}

\* what fetchWithRetry leaves alone
retryRest == <<now, ticks, runs, curGW, calcs, teams, pc, loc, resp, log, start,
               last, fpl, op, served, syncVars, reqVars, fnVars, gameweeks,
               roster, gwsync>>

RetryInit ==
  /\ Quiescent
  /\ env = Configured
  /\ sample = <<>>
  /\ result = <<>>

\* fetchWithRetry(url, retries) is called: let i = 0
RetryCall(retries) ==
  /\ retry.pc = "idle"
  /\ retry' = [retry EXCEPT !.pc = "test", !.retries = retries]
  /\ UNCHANGED retryRest

\* the loop condition i < retries; when it is false the function body ends
\* and the call returns undefined
RetryTest ==
  /\ retry.pc = "test"
  /\ retry' = IF retry.i < retry.retries
                THEN [retry EXCEPT !.pc = "fetch"]
                ELSE [retry EXCEPT !.pc = "done", !.outcome = "undefined"]
  /\ UNCHANGED retryRest

\* the attempt succeeds: return await response.json()
AttemptReturns ==
  /\ retry.pc = "fetch"
  /\ retry' = [retry EXCEPT !.pc = "done", !.attempts = @ + 1, !.outcome = "body"]
  /\ UNCHANGED retryRest

\* what the catch does with the error f of attempt i
Caught(f) ==
  IF retry.i = retry.retries - 1
    THEN [retry EXCEPT !.pc = "done", !.attempts = @ + 1,
                       !.failures = Append(@, f), !.outcome = "thrown",
                       !.error = f]
    ELSE [retry EXCEPT !.pc = "delay", !.attempts = @ + 1,
                       !.failures = Append(@, f)]

\* the attempt fails
AttemptFails(f) ==
  /\ retry.pc = "fetch"
  /\ retry' = Caught(f)
  /\ UNCHANGED retryRest

\* await delay(1000 * (i + 1)), then i++
RetryDelay ==
  /\ retry.pc = "delay"
  /\ retry' = [retry EXCEPT !.pc = "test", !.i = @ + 1,
                            !.waits = Append(@, BACKOFF_MS * (retry.i + 1))]
  /\ UNCHANGED retryRest

RetryNext ==
  \/ \E retries \in 0..MaxRetries : RetryCall(retries)
  \/ RetryTest
  \/ AttemptReturns
  \/ \E f \in Failures : AttemptFails(f)
  \/ RetryDelay

SpecRetry == RetryInit /\ [][RetryNext]_vars

\* ------------------------------------------ the FPL difficulties apart
\* the fixtures the FPL API may answer with, with two values a difficulty may
\* take besides the missing one
RatedFixtures ==
  {f \in [team_h : Teams, team_a : Teams,
          team_h_difficulty : {0, 2, 4}, team_a_difficulty : {0, 2, 4}] :
     f.team_h # f.team_a}

RatedFixtureLists == UNION {[1..n -> RatedFixtures] : n \in 0..MaxFixtures}

\* the fixtures have been fetched
DifficultiesInit ==
  /\ Quiescent
  /\ env = Configured
  /\ sample \in RatedFixtureLists
  /\ result = <<>>

\* teamDifficulties is built and every entry of it is sent as an update
Difficulties ==
  /\ result = <<>>
  /\ LET teamDifficulties == TeamDifficulties(sample, 1, <<>>)
     IN result' = <<[teamId \in DOMAIN teamDifficulties |->
                       FplPayload(teamDifficulties[teamId])]>>
  /\ UNCHANGED <<worldVars, sample>>

SpecDifficulties == DifficultiesInit /\ [][Difficulties]_vars

\* ----------------------------------------------------------- properties
\* the elapsed time the gate of p saw since the last calculation
Elapsed(p, r) == loc[p].gateNow - getTime(r.calculation_timestamp)

\* the last calculation the gate of p read is a newest row of the table
\* as it was when p started (no invocation ran in between)
ReadNewest(p) ==
  /\ (start[p].calcs = {}) <=> (loc[p].lastCalc = {})
  /\ \A r \in loc[p].lastCalc :
       /\ r \in start[p].calcs
       /\ \A y \in start[p].calcs :
            getTime(y.calculation_timestamp) <= getTime(r.calculation_timestamp)

C2_PipelineOnlyWhenStale ==
  \A p \in Procs :
    /\ (\E e \in {"rpc", "upsert", "backfill", "update"} : Issued(p, e)) =>
         /\ log[p][1] = "gate"
         /\ loc[p].isStale
    /\ (Decided(p) /\ ~loc[p].isStale) =>
         /\ log[p] = <<"gate">>
         /\ pc[p] = "done"
         /\ resp[p].status = 200 /\ resp[p].success /\ resp[p].skipped
         /\ \E r \in loc[p].lastCalc :
              LET m == resp[p].minutes_since_update
              IN /\ Elapsed(p, r) - m * MS_PER_MIN <= MS_PER_MIN \div 2
                 /\ m * MS_PER_MIN - Elapsed(p, r) <= MS_PER_MIN \div 2

\* C2 witness: a skipped response reporting 60 minutes
C2_Witness ==
  \E p \in Procs : /\ resp[p].skipped
                    /\ resp[p].minutes_since_update = 60
                    /\ log[p] = <<"gate">>

\* C10: the gate has no side effects: an invocation that determines FRESH
\* leaves team_fdr_calculations and teams (ratings and updated_at) as they
\* were when it started, so a later evaluation reads the same timestamp and
\* gameweek.
C10_GateNoSideEffects ==
  \A p \in Procs : (Decided(p) /\ ~loc[p].isStale) =>
    /\ calcs = start[p].calcs
    /\ teams = start[p].teams
    /\ LatestRows(calcs) = LatestRows(start[p].calcs)

\* C10 witness: a FRESH determination over a table that holds calculations
\* and teams that carry ratings
C10_Witness ==
  \E p \in Procs : /\ Decided(p) /\ ~loc[p].isStale
                    /\ calcs # {}
                    /\ \E t \in Teams : teams[t].updated_at # NullTs

\* p is the second of two invocations run one after the other: the first ran
\* the pipeline and answered success, both read the same current gameweek,
\* and the gate of p was evaluated within one hour of the gate of the first
Successive(p) ==
  /\ Decided(p)
  /\ start[p].prev.proc # "none"
  /\ start[p].prev.stale /\ start[p].prev.status = 200
  /\ loc[p].currentGW # NULL /\ loc[p].currentGW = start[p].prev.gw
  /\ loc[p].gateNow - start[p].prev.gateNow <= ONE_HOUR
  /\ start[p].calcs = start[p].prev.calcs

\* the second invocation is skipped and the rows are those the first left
SecondSkipped(p) ==
  /\ ~loc[p].isStale
  /\ resp[p].skipped
  /\ calcs = start[p].prev.calcs

\* every row the table held when run started was written before run's gate
\* was evaluated (its timestamp is strictly older)
OlderRowsBefore(run) ==
  \A r \in run.startCalcs : getTime(r.calculation_timestamp) < run.gateNow

RecorderClean(p) ==
  /\ pc[p] = "done"
  /\ resp[p].status = 200 /\ ~resp[p].skipped
  /\ Issued(p, "upsert") /\ loc[p].stored
  /\ loc[p].allTeams.ok /\ loc[p].calculatedTeams.ok
  /\ loc[p].missingTeams # {} => loc[p].backfillOk

\* C4 as stated: after a STALE run whose recorder ran to the end, the number
\* of rows of the current gameweek equals the number of known teams.
C4_Original ==
  \A p \in Procs : RecorderClean(p) =>
    Cardinality({r \in calcs : r.gameweek_calculated = loc[p].currentGW})
      = Cardinality(DOMAIN teams)

\* the most recent rows of team t
MostRecent(t) ==
  {r \in calcs : /\ r.team_id = t
                 /\ \A y \in calcs : y.team_id = t =>
                      getTime(y.calculation_timestamp) <= getTime(r.calculation_timestamp)}

\* C5 as stated: after a completed STALE run, the ratings on every known
\* team's teams row equal those of the team's most recent calculation row.
C5_Original ==
  \A p \in Procs : RecorderClean(p) =>
    \A t \in DOMAIN teams : \A r \in MostRecent(t) :
      /\ teams[t].home_difficulty = r.home_difficulty
      /\ teams[t].away_difficulty = r.away_difficulty

C7_OneRowPerTeamGameweek ==
  \A r1 \in calcs : \A r2 \in calcs :
    (/\ r1.team_id = r2.team_id
     /\ r1.season_id = r2.season_id
     /\ r1.gameweek_calculated = r2.gameweek_calculated) => r1 = r2

\* C7 witness: a re-run for the same gameweek has replaced a team's row
C7_Witness ==
  \E p \in Procs :
    /\ pc[p] = "done" /\ loc[p].stored
    /\ \E r \in start[p].calcs :
         /\ r.gameweek_calculated = loc[p].currentGW
         /\ r \notin calcs
         /\ \E n \in calcs : /\ n.team_id = r.team_id
                              /\ n.gameweek_calculated = r.gameweek_calculated

\* persisting the audit snapshot failed in p's run
AuditFailed(p) ==
  /\ pc[p] = "done"
  /\ Issued(p, "upsert")
  /\ \/ ~loc[p].stored
     \/ ~loc[p].allTeams.ok
     \/ ~loc[p].calculatedTeams.ok
     \/ Issued(p, "backfill") /\ ~loc[p].backfillOk

\* C8 as stated: when persisting the audit snapshot fails, the run still
\* updates the ratings and updated_at of every team in the scorer output and
\* ends with a success response.
C8_Original ==
  \A p \in Procs : AuditFailed(p) =>
    /\ resp[p].status = 200 /\ resp[p].success
    /\ \A t \in DOMAIN loc[p].fdrResults :
         /\ teams[t].home_difficulty = loc[p].fdrResults[t].home_difficulty
         /\ teams[t].away_difficulty = loc[p].fdrResults[t].away_difficulty
         /\ teams[t].updated_at = loc[p].stamp

\* the first position of event e in the log of p (0: none)
FirstAt(p, e) ==
  IF Issued(p, e) THEN CHOOSE i \in 1..Len(log[p]) :
                         log[p][i] = e /\ \A j \in 1..(i - 1) : log[p][j] # e
  ELSE 0

\* C9: within one run no update of a teams row is issued until the audit
\* upsert, and the backfill upsert when teams are missing, have completed.
C9_AuditBeforeProjection ==
  \A p \in Procs : (pc[p] = "updating" \/ Issued(p, "update")) =>
    /\ (loc[p].currentGW # NULL /\ loc[p].currentSeason # NULL) =>
         /\ Issued(p, "upsert")
         /\ Issued(p, "update") => FirstAt(p, "upsert") < FirstAt(p, "update")
    /\ loc[p].missingTeams # {} =>
         /\ Issued(p, "backfill")
         /\ Issued(p, "update") => FirstAt(p, "backfill") < FirstAt(p, "update")

\* C9 witness: a run that issued the upsert, the backfill and then an update
C9_Witness ==
  \E p \in Procs : /\ Issued(p, "upsert") /\ Issued(p, "backfill")
                    /\ Issued(p, "update")
                    /\ loc[p].missingTeams # {}

\* C11 as stated: no operation other than the final step of the calculate
\* handler changes a team's home_difficulty, away_difficulty or updated_at:
\* every step that changes one of the three fields of some team is a teams
\* update of Step 4 of a calculate invocation.
C11_Original ==
  [][(\E t \in Teams : teams'[t] # teams[t])
       => \E p \in Procs : \E t \in Teams : UpdateTeam(p, t)]_vars

\* both invocations ran the pipeline to the success response, and each
\* started before the other had completed
Overlapped ==
  /\ \A p \in Procs : /\ pc[p] = "done"
                       /\ resp[p].status = 200 /\ ~resp[p].skipped
                       /\ loc[p].stored
                       /\ start[p].prev.proc = "none"
  /\ loc["cron"].fdrResults # loc["bg"].fdrResults

\* the calculation row and the teams row of team t hold what invocation w
\* wrote for it
WrittenBy(w, t) ==
  /\ teams[t].home_difficulty = loc[w].fdrResults[t].home_difficulty
  /\ teams[t].away_difficulty = loc[w].fdrResults[t].away_difficulty
  /\ \E r \in calcs :
       /\ r.team_id = t
       /\ r.home_difficulty = OrDefault(loc[w].fdrResults[t].home_difficulty, NEUTRAL)
       /\ r.away_difficulty = OrDefault(loc[w].fdrResults[t].away_difficulty, NEUTRAL)

\* C12 as stated: when two calculate invocations overlap and compute
\* different scorer outputs, then after both have completed the calculation
\* row and the rating on the teams row of every team hold the values written
\* by the invocation that finished last, and there is at most one row per
\* team key.
C12_Original ==
  Overlapped =>
    /\ \A t \in DOMAIN loc[last.proc].fdrResults : WrittenBy(last.proc, t)
    /\ \A r1 \in calcs : \A r2 \in calcs : r1.team_id = r2.team_id => r1 = r2

\* invocations p and q both executed the scorer and recorder pipeline for
\* the same current gameweek, their gates evaluated within one freshness
\* window of each other
BothExecuted(p, q) ==
  /\ Issued(p, "rpc") /\ Issued(q, "rpc")
  /\ loc[p].currentGW # NULL /\ loc[p].currentGW = loc[q].currentGW
  /\ loc[q].gateNow - loc[p].gateNow <= ONE_HOUR
  /\ loc[p].gateNow - loc[q].gateNow <= ONE_HOUR

After(p, q) ==
  /\ Decided(q)
  /\ start[q].prev.proc = p
  /\ start[q].prev.stale /\ start[q].prev.stored /\ start[q].prev.status = 200
  /\ loc[q].currentGW # NULL /\ loc[q].currentGW = start[q].prev.gw
  /\ loc[q].gateNow - start[q].prev.gateNow <= ONE_HOUR
  /\ OlderRowsBefore(start[q].prev)

PositionOf(p) ==
  IF p \in Range(sync.playerIds)
    THEN CHOOSE j \in 1..Len(sync.playerIds) : sync.playerIds[j] = p
    ELSE 0

\* C16: at most 10 per-player fetches are in flight at any time, and no
\* fetch of a later batch is issued before every member of the batches
\* before it has settled (its fetch and all its upserts) and the
\* inter-batch delay has elapsed since.
C16_BatchesInTurn ==
  /\ Cardinality({p \in Players : task[p].st = "fetch"}) <= 10
  /\ Cardinality({p \in Players : task[p].st \in {"fetch", "rows"}}) <= 10
  /\ \A q \in Players :
       (task[q].st # "queued" /\ PositionOf(q) > BATCH_SIZE) =>
         \A p \in Players :
           (PositionOf(p) >= 1 /\ (PositionOf(p) - 1) \div BATCH_SIZE
                                   < (PositionOf(q) - 1) \div BATCH_SIZE)
             => task[p].st = "settled"
  /\ (sync.pc = "inflight" /\ sync.i > 0) =>
       sync.issuedAt >= sync.joinedAt + RATE_LIMIT_DELAY(sync.tier) * BATCH_SIZE

\* C16 witness: the fetch of the eleventh player is in flight, the ten
\* players of the first batch have settled and player 1 has upserted rows
C16_Witness ==
  /\ sync.pc = "inflight" /\ sync.i = BATCH_SIZE
  /\ Len(sync.playerIds) > BATCH_SIZE
  /\ task[sync.playerIds[BATCH_SIZE + 1]].st = "fetch"
  /\ \E r \in stats : r.player_id = 1
  /\ sync.issuedAt = sync.joinedAt + RATE_LIMIT_DELAY(sync.tier) * BATCH_SIZE

\* the rows of the fetched players that the run tries to upsert: those of
\* the tier's target set in the history of a player whose fetch succeeded
Attempted ==
  {pr \in Players \X ((LastGW - 3)..(LastGW + 1)) :
     /\ pr[1] \in Range(sync.playerIds) \ api.down
     /\ pr[2] \in Range(Relevant(sync.tier, sync.currentGW, History(pr[1])))}

\* C17: a per-player fetch that fails adds exactly one to the error count,
\* writes no row for that player and does not keep any other player of the
\* same batch or of a later batch from being fetched and upserted; a failed
\* upsert of one row is counted and does not stop the remaining rows. So a
\* completed run has counted one error per failed fetch and per refused
\* row, and has stored every other row of every other player.
C17_FailuresCountedAndIsolated ==
  (sync.pc = "done" /\ sync.status = 200) =>
    /\ sync.errors = Cardinality(Range(sync.playerIds) \cap api.down)
                       + Cardinality(Attempted \cap api.rejected)
    /\ sync.updatedPlayers = Cardinality(Attempted \ api.rejected)
    /\ {<<r.player_id, r.gameweek_id>> : r \in stats} = Attempted \ api.rejected
    /\ \A p \in Range(sync.playerIds) : task[p].st = "settled"

\* C17 witness: the fetch of player 3 failed, the upsert of an earlier row
\* of player 1 was refused; the later row of player 1, the row of player 2
\* of the same batch and the row of the eleventh player are stored
C17_Witness ==
  /\ sync.pc = "done" /\ sync.status = 200
  /\ Len(sync.playerIds) > BATCH_SIZE
  /\ sync.currentGW = LastGW
  /\ 3 \in api.down /\ PositionOf(3) \in 1..BATCH_SIZE
  /\ <<1, LastGW - 1>> \in api.rejected \cap Attempted
  /\ \E r \in stats : r.player_id = 1 /\ r.gameweek_id = LastGW
  /\ \E r \in stats : r.player_id = 2
  /\ \E r \in stats : r.player_id = sync.playerIds[BATCH_SIZE + 1]
  /\ sync.errors = 2

\* C18 as stated (calculate): a run ends in a 500 result only when the
\* current gameweek or the roster of teams (the scorer output) could not be
\* determined; every other failure is logged and the run answers success.
C18_Original ==
  \A p \in Procs :
    resp[p].status = 500 => \/ loc[p].currentGW = NULL
                            \/ loc[p].fdrResults = <<>>

ScorerFailed(p) == Issued(p, "rpc") /\ pc[p] = "done" /\ loc[p].fdrResults = <<>>

\* C20: when the scorer returns no teams (an empty or missing result) the
\* calculate run fails with an error response and writes nothing to
\* team_fdr_calculations or teams.
C20_NoTeamsHardFails ==
  \A p \in Procs : ScorerFailed(p) =>
    /\ resp[p].status = 500 /\ ~resp[p].success
    /\ log[p] = <<"gate", "rpc">>
    /\ calcs = start[p].calcs
    /\ teams = start[p].teams

\* C20 witness: a run whose scorer returned no teams has answered 500 and
\* left the rows and ratings of an earlier run in place
C20_Witness ==
  \E p \in Procs :
    /\ ScorerFailed(p) /\ resp[p].status = 500
    /\ calcs # {}
    /\ \E t \in Teams : teams[t].updated_at # NullTs

\* C30: in every execution of the trigger endpoint the requests go out in
\* the order players sync, quick-stats sync, FPL-difficulty sync, FDR
\* calculation, each one only after the previous one has answered, and the
\* FDR calculation is never requested when the quick-stats sync answered
\* with a failure.
C30_StepsInOrder ==
  /\ Len(trigger.calls) <= Len(TriggerSteps)
  /\ trigger.calls = SubSeq(TriggerSteps, 1, Len(trigger.calls))
  /\ Len(trigger.calls) =
       StepsDone(trigger) + (IF trigger.pc = "await" THEN 1 ELSE 0)
  /\ (\E j \in 1..Len(trigger.calls) : trigger.calls[j] = "calculate")
       => ResponseOk(trigger.syncResult)
  /\ (trigger.syncResult # "none" /\ ~ResponseOk(trigger.syncResult))
       => trigger.pc \in {"failed", "done"} /\ trigger.status \in {0, 500}

\* C30 witness: the players sync failed and the run went on; the quick-stats
\* sync failed and the run ended with 500 after two requests
C30_Witness ==
  /\ trigger.pc = "done" /\ trigger.status = 500
  /\ trigger.playersResult = "failed" /\ trigger.syncResult = "failed"
  /\ trigger.calls = <<"players", "quick-stats">>

\* a body reports an error count / a duration, under any of the names the
\* handlers use
HasErrorCount(fields) == fields \cap {"errors", "stats.errors"} # {}

HasDuration(fields) ==
  fields \cap {"duration", "duration_seconds", "stats.duration_seconds"} # {}

\* C21 as stated: every success response of the calculate endpoint, of the
\* trigger endpoint and of the quick and full sync endpoints carries both an
\* error count and a duration.
C21_Original ==
  /\ \A p \in Procs : resp[p].status = 200 =>
       /\ HasErrorCount(ResponseFields(resp[p]))
       /\ HasDuration(ResponseFields(resp[p]))
  /\ sync.status = 200 =>
       /\ HasErrorCount(SyncResponseFields(sync))
       /\ HasDuration(SyncResponseFields(sync))
  /\ trigger.status = 200 =>
       /\ HasErrorCount(TriggerResponseFields(trigger))
       /\ HasDuration(TriggerResponseFields(trigger))

\* the keys of the rows of player_gameweek_stats
StatKeys(rows) == {<<r.player_id, r.gameweek_id>> : r \in rows}

\* C22: after any interleaving of the upserts of the quick sync, the full
\* sync, the live-gameweek sync and the single-gameweek script,
\* player_gameweek_stats holds at most one row per (player_id, gameweek_id),
\* and the set of keys present never shrinks: no operation deletes a row.
C22_UniqueUpsertOnly ==
  /\ [](\A r1, r2 \in stats :
          (r1.player_id = r2.player_id /\ r1.gameweek_id = r2.gameweek_id)
            => r1 = r2)
  /\ [][StatKeys(stats) \subseteq StatKeys(stats')]_vars

\* C22 witness: five keys are present and the row of player 1 for the last
\* gameweek was written with both values of total_points on the way (here:
\* 6), while the row of player 2 holds the other value
C22_Witness ==
  /\ curGW = LastGW
  /\ Cardinality(stats) >= 5
  /\ StatRow(1, LastGW, 6) \in stats
  /\ StatRow(2, LastGW, 0) \in stats
  /\ StatRow(1, LastGW + 1, 6) \in stats

\* the teams the scorer of p's run left without a rating: absent from its
\* output, or returned with no home rating
Unrated(p) ==
  {t \in Teams : \/ t \notin DOMAIN loc[p].fdrResults
                 \/ loc[p].fdrResults[t].home_difficulty = NULL}

\* C23 as stated: every team with no games played (absent from the scorer
\* output, or returned without a rating) ends a calculate run with rating 5
\* for both home and away: its team_fdr_calculations row has
\* home_difficulty = away_difficulty = 5 and the ratings read endpoint
\* reports h_diff = a_diff = 5 for it. (Stated for the runs that found the
\* current gameweek and season and in which every store operation
\* succeeded.)
C23_Original ==
  \A p \in Procs :
    (/\ pc[p] = "done" /\ resp[p].status = 200 /\ ~resp[p].skipped
     /\ loc[p].currentGW # NULL /\ loc[p].currentSeason # NULL
     /\ Healthy(p)) =>
      \A t \in Unrated(p) :
        /\ \E r \in calcs : /\ r.team_id = t
                            /\ r.home_difficulty = NEUTRAL
                            /\ r.away_difficulty = NEUTRAL
        /\ \A r \in MostRecent(t) :
             r.home_difficulty = NEUTRAL /\ r.away_difficulty = NEUTRAL
        /\ OrDefault(teams[t].home_difficulty, NEUTRAL) = NEUTRAL
        /\ OrDefault(teams[t].away_difficulty, NEUTRAL) = NEUTRAL

\* C24 as stated: every normalized factor score stored in a
\* team_fdr_calculations row lies in [0, 100] and equals the score the scorer
\* produced for the team, for every value in that range, 0 and 100 included.
C24_Original ==
  \A j \in 1..Len(result) :
    /\ sample.home_goals_scored_per_90_score \in 0..100 =>
         /\ result[j].home_goals_scored_per_90_score \in 0..100
         /\ result[j].home_goals_scored_per_90_score
              = sample.home_goals_scored_per_90_score
    /\ sample.away_goals_scored_per_90_score \in 0..100 =>
         /\ result[j].away_goals_scored_per_90_score \in 0..100
         /\ result[j].away_goals_scored_per_90_score
              = sample.away_goals_scored_per_90_score

\* a calculation row without its calculation_timestamp
Scores(r) == [team_id |-> r.team_id, season_id |-> r.season_id,
              gameweek_calculated |-> r.gameweek_calculated,
              home_difficulty |-> r.home_difficulty,
              away_difficulty |-> r.away_difficulty]

\* p's run and the run before it both executed the pipeline on the same
\* scorer rows and both stored their calculation records
TwoStoredRuns(p) ==
  /\ pc[p] = "done" /\ loc[p].stored /\ loc[p].fdrResults = sample
  /\ start[p].prev.stale /\ start[p].prev.stored

C26_Per90Rate ==
  \A j \in 1..Len(result) :
    LET minutes == SumOf(sample, "minutes")
        goals == SumOf(sample, "goals_scored")
        rate == result[j].goals_per_90
    IN /\ minutes = 0 => rate = 0 /\ result[j].games_played = 0
       /\ minutes > 0 =>
            /\ rate * minutes <= goals * MINUTES_PER_MATCH * RATE_SCALE
            /\ goals * MINUTES_PER_MATCH * RATE_SCALE < (rate + 1) * minutes
       /\ (/\ Len(sample) = 2
           /\ sample[1].minutes = 90 /\ sample[1].goals_scored = 2
           /\ sample[2].minutes = 0 /\ sample[2].goals_scored = 0)
            => rate = 2 * RATE_SCALE

\* C26 witness: the two players of the example have been aggregated
C26_Witness ==
  /\ Len(sample) = 2 /\ Len(result) = 1
  /\ sample[1].minutes = 90 /\ sample[1].goals_scored = 2
  /\ sample[2].minutes = 0 /\ sample[2].goals_scored = 0
  /\ result[1].goals_per_90 = 200

\* C27: when the upsert of a row of player statistics fails, that row is
\* tried again on its own: the step that counts the error leaves the player's
\* loop on the same row, it does not move on to the next row or finish.
C27_Original ==
  [][\A p \in Players :
       (/\ task[p].st = "rows"
        /\ task'[p] # task[p]
        /\ sync'.errors = sync.errors + 1)
         => (task'[p].st = "rows" /\ task'[p].k = task[p].k)]_vars

\* C28: once the recalculation started by a stale read has succeeded, a
\* read of the ratings observes an updated_at within the freshness window:
\* a read taken within one hour of the staleness gate of that recalculation
\* is not stale.
C28_Original ==
  [][(/\ op'.n = op.n + 1
      /\ served'.status = 200
      /\ \E p \in BgProcs :
           /\ pc[p] = "done"
           /\ resp[p].status = 200 /\ ~resp[p].skipped
           /\ loc[p].currentSeason # NULL /\ loc[p].stored
           /\ now - loc[p].gateNow <= ONE_HOUR)
       => ~served'.isStale]_vars

\* the request carries a credential of the deployment: the Authorization
\* header of the configured admin token, or the configured cron secret
Authenticated(r, e) ==
  \/ e.ADMIN_TOKEN # Unset /\ r.authorization = Bearer(e.ADMIN_TOKEN)
  \/ e.CRON_SECRET # Unset /\ r.cronSecret = e.CRON_SECRET

\* the endpoint has not taken the request up, or has answered it 401
Refused(r) ==
  IF r.endpoint = "calculate"
    THEN \A p \in SeqProcs : pc[p] = "idle" \/ (pc[p] = "done" /\ resp[p].status = 401)
  ELSE IF r.endpoint = "fpl-difficulty"
    THEN op.kind = "none" \/ op.status = 401
  ELSE sync.pc = "idle" \/ (sync.pc = "done" /\ sync.status = 401)

\* C29: a request (other than a CORS preflight) to calculate, the
\* FPL-difficulty sync or the live-gameweek sync that carries neither the
\* admin token nor the cron secret is answered 401 and nothing is read from
\* or written to the store, whether or not the secrets are set.
C29_Original ==
  (req.endpoint \in Endpoints /\ req.method # "OPTIONS" /\ ~Authenticated(req, env))
    => /\ Refused(req)
       /\ runs = 0 /\ calcs = {} /\ stats = {}
       /\ teams = [t \in Teams |-> NullTeam]
       /\ fpl = [t \in Teams |-> NullFpl]

\* C31: a players sync that answers 200 while the source reports gameweek g
\* as current leaves exactly g marked is_current in the store.
C31_Original ==
  [][(/\ gwsync["players"].pc # "done"
      /\ gwsync'["players"].pc = "done"
      /\ gwsync'["players"].status = 200
      /\ gwsync'["players"].apiCurrentGW # {})
       => CurrentRows(gameweeks') = {e.id : e \in gwsync'["players"].apiCurrentGW}]_vars

\* C32: no step of a players sync or of a live-gameweek sync takes the store
\* from exactly one gameweek marked is_current to any other number of them.
C32_Original ==
  [][Cardinality(CurrentRows(gameweeks)) = 1
       => Cardinality(CurrentRows(gameweeks')) = 1]_vars

\* what the staleness gate of calculate would decide on the store as it is
GateVerdicts ==
  {IsStale(lastCalc, curGW,
           now - (IF lastCalc = {} THEN 0
                  ELSE getTime((CHOOSE r \in lastCalc : TRUE).calculation_timestamp)))
     : lastCalc \in LatestRows(calcs)}

\* C33: a read of the ratings finds them stale, and so starts a background
\* recalculation, exactly when the staleness gate would decide STALE on the
\* store the read sees.
C33_Original ==
  [][(op'.n = op.n + 1 /\ served'.status = 200)
       => GateVerdicts = {served'.isStale}]_vars

\* C34: the trigger, once past its own checks, answers 200 exactly when the
\* quick-stats sync responded OK, whatever became of the other three calls.
C34_Original ==
  (trigger.pc = "done" /\ trigger.status \in {200, 500})
    => (trigger.status = 200 <=> ResponseOk(trigger.syncResult))

\* the number of target-gameweek history rows of a set of players
RECURSIVE TargetRows(_, _, _)
TargetRows(S, tier, g) ==
  IF S = {} THEN 0
  ELSE LET p == CHOOSE q \in S : TRUE
       IN Len(Relevant(tier, g, History(p))) + TargetRows(S \ {p}, tier, g)

\* C35: at the end of a quick sync, stats_updated + errors equals the number
\* of players whose fetch failed plus the number of target-gameweek history
\* rows of the players whose fetch succeeded.
C35_EveryOutcomeCountedOnce ==
  (sync.tier = "quick" /\ sync.pc = "done" /\ sync.status = 200)
    => sync.updatedPlayers + sync.errors
         = Cardinality(Range(sync.playerIds) \cap api.down)
             + TargetRows(Range(sync.playerIds) \ api.down, "quick", sync.currentGW)

\* C35 witness: a quick sync of two batches has ended in which a fetch
\* failed, an upsert failed and an upsert succeeded
C35_Witness ==
  /\ sync.tier = "quick" /\ sync.pc = "done" /\ sync.status = 200
  /\ Len(sync.playerIds) > BATCH_SIZE
  /\ Range(sync.playerIds) \cap api.down # {}
  /\ \E row \in api.rejected :
       /\ row[1] \in Range(sync.playerIds) \ api.down
       /\ row[2] \in Range(Relevant("quick", sync.currentGW, History(row[1])))
  /\ sync.errors >= 2
  /\ sync.updatedPlayers >= 1

\* C36: a quick or full sync that has been called eventually sends its
\* response, and sends it once; when it answers 200 every player id of its
\* tier has been fetched and has settled and no other player was fetched;
\* a fetch is only ever issued for a player not fetched before.
C36_OneResponseEveryPlayerOnce ==
  /\ (sync.pc # "idle") ~> (sync.pc = "done" /\ sync.status # 0)
  /\ []((sync.pc = "done" /\ sync.status = 200)
          => \A p \in Players :
               task[p].st = (IF p \in Range(sync.playerIds) THEN "settled"
                             ELSE "queued"))
  /\ [][/\ \A p \in Players :
             (task'[p].st = "fetch" /\ task[p].st # "fetch") => task[p].st = "queued"
        /\ sync.status # 0 => (sync' = sync /\ task' = task)]_vars

\* C36 witness: a full sync of two batches has answered 200, all its
\* players settled, one of them after a failed fetch
C36_Witness ==
  /\ sync.tier = "full" /\ sync.pc = "done" /\ sync.status = 200
  /\ Len(sync.playerIds) > BATCH_SIZE
  /\ \A p \in Range(sync.playerIds) : task[p].st = "settled"
  /\ Range(sync.playerIds) \cap api.down # {}

C39_Original ==
  \A k \in 3..Len(retry.waits) :
    retry.waits[k] * retry.waits[k - 2] = retry.waits[k - 1] * retry.waits[k - 1]

\* the positions of the fixtures with both difficulties present in which t
\* is the home side, and those in which it is the away side
HomeFixtures(t) ==
  {i \in 1..Len(sample) : /\ sample[i].team_h = t
                          /\ sample[i].team_h_difficulty # 0
                          /\ sample[i].team_a_difficulty # 0}

AwayFixtures(t) ==
  {i \in 1..Len(sample) : /\ sample[i].team_a = t
                          /\ sample[i].team_h_difficulty # 0
                          /\ sample[i].team_a_difficulty # 0}

\* the first of a set of positions
First(S) == CHOOSE i \in S : \A j \in S : i <= j

\* the values the claim gives to the two sides of t
FirstOccurrence(t) ==
  [fpl_home_difficulty |->
     IF HomeFixtures(t) = {} THEN 3
     ELSE sample[First(HomeFixtures(t))].team_a_difficulty,
   fpl_away_difficulty |->
     IF AwayFixtures(t) = {} THEN 3
     ELSE sample[First(AwayFixtures(t))].team_h_difficulty]

\* C38 as stated: every team is written, its home value from the first
\* fixture with both difficulties present in which it is the home side, its
\* away value from the first such fixture in which it is the away side, and
\* a side with no such fixture as 3
C38_Original ==
  result # <<>> =>
    \A t \in Teams :
      /\ t \in DOMAIN result[1]
      /\ result[1][t] = FirstOccurrence(t)

\* C38: the teams the FPL-difficulty sync writes are those of the fixtures
\* with both difficulties present; such a team's home value is the
\* team_a_difficulty of the first such fixture, in list order, in which it is
\* the home side, its away value the team_h_difficulty of the first in which
\* it is the away side, and a side with no such fixture is written as 3
C38_FirstOccurrence ==
  result # <<>> =>
    /\ DOMAIN result[1] = {t \in Teams : HomeFixtures(t) \cup AwayFixtures(t) # {}}
    /\ \A t \in DOMAIN result[1] : result[1][t] = FirstOccurrence(t)

\* a team is the home side of two fixtures with different values, and has
\* no fixture as the away side
C38_Witness ==
  /\ result # <<>>
  /\ \E t \in DOMAIN result[1] :
       /\ AwayFixtures(t) = {}
       /\ result[1][t].fpl_away_difficulty = 3
       /\ \E i, j \in HomeFixtures(t) :
            /\ i < j
            /\ sample[i].team_a_difficulty # sample[j].team_a_difficulty
            /\ result[1][t].fpl_home_difficulty = sample[i].team_a_difficulty

====
